---------------------------- MODULE Spec2Model ----------------------------
(***************************************************************************)
(* A model of draupnir_mcp_server/server.py: the path sandbox              *)
(* (_enforce_under, read_text, read_resource), the brace-aware glob        *)
(* matcher (_expand_brace_patterns, _normalize_patterns, _matches), the    *)
(* policy validator (validate_cilium_policy) and the posture scan          *)
(* (zero_trust_checklist).                                                 *)
(*                                                                         *)
(* Strings the code inspects character by character (glob patterns, file   *)
(* names, rendered YAML) are sequences of one-character strings.           *)
(* Filesystem paths are sequences of components.                           *)
(***************************************************************************)
EXTENDS Integers, Sequences, FiniteSets, TLC

VARIABLES
    pc,      \* "idle": waiting for a call; "done": a call has returned
    op,      \* the tool that was called
    arg,     \* its argument
    result,  \* what it returned or raised
    trace,   \* the sandbox checks, file reads and directory entries of the call, in order
    scan,    \* zero_trust_checklist's loop: corpus, position, stats, details
    disk,    \* concurrent serving: the files of each data dir
    heap,    \* concurrent serving: the objects allocated by the calls in progress
    frames,  \* concurrent serving: each call's position and local variables
    DEFAULT_DATA_DIR,  \* concurrent serving: the module global, set on (re)load
    environ  \* concurrent serving: os.environ["STATIC_MCP_DATA_DIR"]

vars == <<pc, op, arg, result, trace, scan, disk, heap, frames, DEFAULT_DATA_DIR, environ>>

\* The variables of a server that takes one call at a time.
seqVars == <<pc, op, arg, result, trace, scan>>

\* The variables of a server whose transport runs calls concurrently.
concVars == <<disk, heap, frames, DEFAULT_DATA_DIR, environ>>

NoArg == [none |-> TRUE]
NoResult == [tag |-> "none"]

NoScan == [active |-> FALSE]

(***************************************************************************)
(* Generic sequence helpers.                                               *)
(***************************************************************************)
Last(s) == s[Len(s)]

Front(s) == SubSeq(s, 1, Len(s) - 1)

IsPrefix(p, s) == Len(p) <= Len(s) /\ SubSeq(s, 1, Len(p)) = p

SeqsUpTo(S, n) == UNION {[1..k -> S] : k \in 0..n}

(***************************************************************************)
(* The filesystem the server runs on.  DEFAULT_DATA_DIR is resolved once,  *)
(* at import, so Root is canonical.                                        *)
(***************************************************************************)
Root == <<"data">>

Dirs == { <<>>, <<"data">>, <<"data", "a">>, <<"etc">>, <<"data2">> }

\* The server's working directory; the default data dir is "./data".
Cwd == <<>>

\* A symbolic link inside the data dir that points out of it.
Symlinks == { <<"data", "link">> }

SymlinkTarget(p) == <<"etc">>

\* Regular files and the text each holds.
Files == { <<"data", "a.txt">>, <<"data", "a", "b.yaml">>, <<"data", "bad.yaml">>,
           <<"etc", "passwd">>, <<"data2", "x">> }

FileText(p) ==
    CASE p = <<"data", "a.txt">> -> "hello world"
      [] p = <<"data", "a", "b.yaml">> -> "kind: Pod"
      [] p = <<"data", "bad.yaml">> -> "a: ["
      [] p = <<"etc", "passwd">> -> "secret"
      [] p = <<"data2", "x">> -> "sibling"

\* str(a).startswith(str(b)) on the component names of this filesystem.
StrStartsWith(s, p) == s = p \/ (s = "data2" /\ p = "data")

(***************************************************************************)
(* pathlib: Path(a) / b, Path.resolve(), PurePath.relative_to().           *)
(***************************************************************************)
\* A user path as pathlib parses it: absolute or not, and its components
\* ("." components are dropped by the parser, ".." are kept).
ParsePath(abs, segs) ==
    [abs |-> abs, parts |-> SelectSeq(segs, LAMBDA c : c # ".")]

\* DEFAULT_DATA_DIR / path: an absolute right operand replaces the left one.
JoinPath(base, p) == IF p.abs THEN p.parts ELSE base \o p.parts

\* Path.resolve() (os.path.realpath, strict=False): walk the components on
\* the path resolved so far; ".." drops the last resolved component, a
\* symbolic link is replaced by its target, a missing name is appended.
RECURSIVE ResolveFrom(_, _)
ResolveFrom(cur, rest) ==
    IF rest = <<>> THEN cur
    ELSE LET c == Head(rest)
             nxt == IF c = ".." THEN (IF cur = <<>> THEN cur ELSE Front(cur))
                    ELSE IF (cur \o <<c>>) \in Symlinks
                         THEN SymlinkTarget(cur \o <<c>>)
                         ELSE cur \o <<c>>
         IN  ResolveFrom(nxt, Tail(rest))

Resolve(parts) == ResolveFrom(<<>>, parts)

\* The mutant of _enforce_under: a textual prefix test, str(path).startswith(str(base)).
EnforceUnderByStringPrefix(path, base) ==
    /\ Len(path) >= Len(base)
    /\ \A i \in 1..(Len(base) - 1) : path[i] = base[i]
    /\ StrStartsWith(path[Len(base)], base[Len(base)])

\* _enforce_under: path.relative_to(base) compares the first len(base)
\* components; TRUE when it does not raise.
EnforceUnder(path, base) ==
    LET n == Len(base)
    IN  IF n > Len(path) THEN FALSE
        ELSE SubSeq(path, 1, n) = base

\* How the operating system walks a path when it opens it: ".." is the
\* parent directory, a link is followed, a name under a regular file is
\* ENOTDIR, a missing name is ENOENT.
RECURSIVE OsWalk(_, _)
OsWalk(cur, rest) ==
    IF rest = <<>> THEN [tag |-> "found", at |-> cur]
    ELSE LET c == Head(rest)
             nxt == cur \o <<c>>
         IN  IF c = ".."
             THEN OsWalk(IF cur = <<>> THEN cur ELSE Front(cur), Tail(rest))
             ELSE IF nxt \in Symlinks THEN OsWalk(SymlinkTarget(nxt), Tail(rest))
             ELSE IF nxt \in Dirs THEN OsWalk(nxt, Tail(rest))
             ELSE IF nxt \in Files
                  THEN (IF Tail(rest) = <<>> THEN [tag |-> "found", at |-> nxt]
                        ELSE [tag |-> "raise", err |-> "NotADirectoryError"])
             ELSE [tag |-> "raise", err |-> "FileNotFoundError"]

\* Path.read_text: the text of the regular file the path leads to, or the
\* OSError of the open.
ReadFile(fp) ==
    LET w == OsWalk(<<>>, fp)
    IN  IF w.tag = "raise" THEN w
        ELSE IF w.at \in Files
             THEN [tag |-> "text", text |-> FileText(w.at), from |-> w.at]
        ELSE [tag |-> "raise", err |-> "IsADirectoryError"]

CheckEvent(fp, ok) == [ev |-> "check", path |-> fp, ok |-> ok]

ReadEvent(fp) == [ev |-> "read", path |-> fp, ok |-> TRUE]

\* read_text(path): resolve, enforce, read.
ReadText(p) ==
    LET fp == Resolve(JoinPath(Root, ParsePath(p.abs, p.segs)))
    IN  IF ~EnforceUnder(fp, Root)
        THEN [result |-> [tag |-> "raise", err |-> "PermissionError"],
              trace |-> <<CheckEvent(fp, FALSE)>>]
        ELSE [result |-> ReadFile(fp),
              trace |-> <<CheckEvent(fp, TRUE), ReadEvent(fp)>>]

\* read_resource(uri): the text after "file://" is opened as it is; the
\* operating system resolves ".." and links when it opens the file.
ReadResource(uri) ==
    IF uri.scheme # "file://"
    THEN [result |-> [tag |-> "raise", err |-> "ValueError"], trace |-> <<>>]
    ELSE LET fp == JoinPath(Cwd, ParsePath(uri.abs, uri.segs))
         IN  [result |-> ReadFile(fp), trace |-> <<ReadEvent(fp)>>]

(***************************************************************************)
(* Text helpers (str.partition, str.split, str.startswith, "in").          *)
(***************************************************************************)
RECURSIVE Concat(_)
Concat(ss) == IF ss = <<>> THEN <<>> ELSE Head(ss) \o Concat(Tail(ss))

\* The first index of character c in s, or 0.
RECURSIVE IndexFrom(_, _, _)
IndexFrom(s, c, i) ==
    IF i > Len(s) THEN 0
    ELSE IF s[i] = c THEN i
    ELSE IndexFrom(s, c, i + 1)

IndexOf(s, c) == IndexFrom(s, c, 1)

HasChar(s, c) == IndexOf(s, c) # 0

\* s.partition(c): (before, separator or empty, after).
Partition(s, c) ==
    LET i == IndexOf(s, c)
    IN  IF i = 0 THEN <<s, <<>>, <<>>>>
        ELSE <<SubSeq(s, 1, i - 1), <<c>>, SubSeq(s, i + 1, Len(s))>>

\* s.split(c): every piece, empty ones included.
RECURSIVE Split(_, _)
Split(s, c) ==
    LET i == IndexOf(s, c)
    IN  IF i = 0 THEN <<s>>
        ELSE <<SubSeq(s, 1, i - 1)>> \o Split(SubSeq(s, i + 1, Len(s)), c)

StartsWith(s, p) == IsPrefix(p, s)

\* sub in s, for texts.
Contains(s, sub) ==
    \E i \in 0..(Len(s) - Len(sub)) : SubSeq(s, i + 1, i + Len(sub)) = sub

\* "/".join(parts)
RECURSIVE JoinSlash(_)
JoinSlash(parts) ==
    IF parts = <<>> THEN <<>>
    ELSE IF Len(parts) = 1 THEN parts[1]
    ELSE parts[1] \o <<"/">> \o JoinSlash(Tail(parts))

(***************************************************************************)
(* GlobMatcher: _expand_brace_patterns, _normalize_patterns, _matches.     *)
(***************************************************************************)
RecursivePrefix == <<"*", "*", "/">>

\* _expand_brace_patterns
ExpandBracePatterns(pattern) ==
    IF ~HasChar(pattern, "{") \/ ~HasChar(pattern, "}") THEN <<pattern>>
    ELSE LET p1 == Partition(pattern, "{")
             p2 == Partition(p1[3], "}")
             alts == Split(p2[1], ",")
         IN  IF p2[2] = <<>> THEN <<pattern>>
             ELSE [i \in 1..Len(alts) |-> p1[1] \o alts[i] \o p2[3]]

\* The loop of _normalize_patterns over the expanded patterns.
RECURSIVE WithStrippedCopies(_)
WithStrippedCopies(pats) ==
    IF pats = <<>> THEN <<>>
    ELSE LET pat == Head(pats)
         IN  (IF StartsWith(pat, RecursivePrefix)
              THEN <<pat, SubSeq(pat, 4, Len(pat))>>
              ELSE <<pat>>) \o WithStrippedCopies(Tail(pats))

\* The mutant of _normalize_patterns: the "**/"-stripped copy is not added.
NormalizePatternsNoStrip(pattern) == ExpandBracePatterns(pattern)

\* _normalize_patterns
NormalizePatterns(pattern) == WithStrippedCopies(ExpandBracePatterns(pattern))

\* PurePosixPath parsing: the root ("", "/" or, for exactly two leading
\* slashes, "//") and the components, empty and "." ones dropped.
PosixRoot(s) ==
    IF Len(s) >= 1 /\ s[1] = "/"
    THEN (IF Len(s) >= 2 /\ s[2] = "/" /\ ~(Len(s) >= 3 /\ s[3] = "/")
          THEN "//" ELSE "/")
    ELSE ""

PosixParts(s) ==
    SelectSeq(Split(s, "/"), LAMBDA x : x # <<>> /\ x # <<".">>)

\* fnmatch.fnmatchcase(name, pat) for patterns made of "*" and literal
\* characters: "*" is any run of characters, the rest match themselves.
RECURSIVE FnMatchCase(_, _)
FnMatchCase(name, pat) ==
    IF pat = <<>> THEN name = <<>>
    ELSE IF Head(pat) = "*"
         THEN \/ FnMatchCase(name, Tail(pat))
              \/ (name # <<>> /\ FnMatchCase(Tail(name), pat))
    ELSE name # <<>> /\ Head(name) = Head(pat)
         /\ FnMatchCase(Tail(name), Tail(pat))

\* The components of a path compared from the right with those of a pattern.
RECURSIVE MatchFromRight(_, _)
MatchFromRight(parts, patParts) ==
    IF parts = <<>> \/ patParts = <<>> THEN TRUE
    ELSE FnMatchCase(Last(parts), Last(patParts))
         /\ MatchFromRight(Front(parts), Front(patParts))

\* PurePosixPath(path).match(pat): "True", "False" or "ValueError" (a
\* pattern without components).
PurePathMatch(path, pat) ==
    LET patRoot == PosixRoot(pat)
        patParts == PosixParts(pat)
        root == PosixRoot(path)
        parts == PosixParts(path)
    IN  IF patRoot = "" /\ patParts = <<>> THEN "ValueError"
        ELSE IF patRoot # "" /\ patRoot # root THEN "False"
        ELSE IF patRoot # "" /\ Len(patParts) # Len(parts) THEN "False"
        ELSE IF patRoot = "" /\ Len(patParts) > Len(parts) THEN "False"
        ELSE IF MatchFromRight(parts, patParts) THEN "True" ELSE "False"

\* The loop of _matches: the first pattern that matches answers True, a
\* pattern without components raises before the later ones are tried.
RECURSIVE MatchAny(_, _)
MatchAny(path, pats) ==
    IF pats = <<>> THEN "False"
    ELSE LET r == PurePathMatch(path, Head(pats))
         IN  IF r = "False" THEN MatchAny(path, Tail(pats)) ELSE r

\* _matches(path, pattern)
Matches(path, pattern) == MatchAny(path, NormalizePatterns(pattern))

(***************************************************************************)
(* Parsed YAML documents.  A value is a record with a tag t and a payload  *)
(* v: the characters of a string or of an integer's decimal form, <<>> or  *)
(* <<"true">>/<<"false">> for null and booleans, a sequence of values for *)
(* a list and a function from keys to values for a mapping.                *)
(***************************************************************************)
Null == [t |-> "null", v |-> <<>>]

StrVal(chars) == [t |-> "str", v |-> chars]

IntVal(digits) == [t |-> "int", v |-> digits]

BoolVal(b) == [t |-> "bool", v |-> IF b THEN <<"true">> ELSE <<"false">>]

ListVal(items) == [t |-> "list", v |-> items]

MapVal(fields) == [t |-> "map", v |-> fields]

EmptyMap == MapVal(<<>>)

EmptyList == ListVal(<<>>)

\* The text of each mapping key.
KeyText(k) ==
    CASE k = "apiVersion" -> <<"a", "p", "i", "V", "e", "r", "s", "i", "o", "n">>
      [] k = "app" -> <<"a", "p", "p">>
      [] k = "dns" -> <<"d", "n", "s">>
      [] k = "egress" -> <<"e", "g", "r", "e", "s", "s">>
      [] k = "endpointSelector" -> <<"e", "n", "d", "p", "o", "i", "n", "t", "S", "e", "l", "e", "c", "t", "o", "r">>
      [] k = "fromEndpoints" -> <<"f", "r", "o", "m", "E", "n", "d", "p", "o", "i", "n", "t", "s">>
      [] k = "ingress" -> <<"i", "n", "g", "r", "e", "s", "s">>
      [] k = "k8s-app" -> <<"k", "8", "s", "-", "a", "p", "p">>
      [] k = "k8s:io.kubernetes.pod.namespace" ->
           <<"k", "8", "s", ":", "i", "o", ".", "k", "u", "b", "e", "r", "n", "e", "t", "e", "s",
             ".", "p", "o", "d", ".", "n", "a", "m", "e", "s", "p", "a", "c", "e">>
      [] k = "kind" -> <<"k", "i", "n", "d">>
      [] k = "labels" -> <<"l", "a", "b", "e", "l", "s">>
      [] k = "matchLabels" -> <<"m", "a", "t", "c", "h", "L", "a", "b", "e", "l", "s">>
      [] k = "matchName" -> <<"m", "a", "t", "c", "h", "N", "a", "m", "e">>
      [] k = "metadata" -> <<"m", "e", "t", "a", "d", "a", "t", "a">>
      [] k = "name" -> <<"n", "a", "m", "e">>
      [] k = "namespace" -> <<"n", "a", "m", "e", "s", "p", "a", "c", "e">>
      [] k = "note" -> <<"n", "o", "t", "e">>
      [] k = "port" -> <<"p", "o", "r", "t">>
      [] k = "ports" -> <<"p", "o", "r", "t", "s">>
      [] k = "protocol" -> <<"p", "r", "o", "t", "o", "c", "o", "l">>
      [] k = "rules" -> <<"r", "u", "l", "e", "s">>
      [] k = "spec" -> <<"s", "p", "e", "c">>
      [] k = "toEndpoints" -> <<"t", "o", "E", "n", "d", "p", "o", "i", "n", "t", "s">>
      [] k = "toFQDNs" -> <<"t", "o", "F", "Q", "D", "N", "s">>
      [] k = "toPorts" -> <<"t", "o", "P", "o", "r", "t", "s">>

\* The keys in the order sorted() gives them.
KeyOrder ==
    << "apiVersion", "app", "dns", "egress", "endpointSelector", "fromEndpoints",
       "ingress", "k8s-app", "k8s:io.kubernetes.pod.namespace", "kind", "labels",
       "matchLabels", "matchName",
       "metadata", "name", "namespace", "note", "port",
       "ports", "protocol", "rules", "spec", "toEndpoints",
       "toFQDNs", "toPorts" >>

CNPText == <<"C", "i", "l", "i", "u", "m", "N", "e", "t", "w", "o", "r", "k", "P", "o", "l", "i", "c", "y">>

CCNPText == <<"C", "i", "l", "i", "u", "m", "C", "l", "u", "s", "t", "e", "r", "w", "i", "d", "e", "N", "e", "t", "w", "o", "r", "k", "P", "o", "l", "i", "c", "y">>

NameText == <<"n", "a", "m", "e">>

Digits == {"0", "1", "2", "3", "4", "5", "6", "7", "8", "9"}

\* isinstance(v, dict)
IsMap(v) == v.t = "map"

Keys(m) == DOMAIN m.v

\* bool(v)
Truthy(v) ==
    CASE v.t = "null" -> FALSE
      [] v.t = "bool" -> v.v = <<"true">>
      [] v.t = "int" -> v.v # <<"0">>
      [] OTHER -> v.v # <<>>

\* d.get(k, default) and d.get(k)
GetOr(m, k, default) == IF k \in Keys(m) THEN m.v[k] ELSE default

Get(m, k) == GetOr(m, k, Null)

\* a or b
Or(a, b) == IF Truthy(a) THEN a ELSE b

\* Lists and mappings cannot be hashed, so "x in <a set>" raises TypeError.
Hashable(v) == v.t \notin {"list", "map"}

\* Iterating a value: a list gives its items, a mapping its keys, a string
\* its characters; anything else raises TypeError.
Iterable(v) == v.t \in {"list", "map", "str"}

KeysInOrder(m) == SelectSeq(KeyOrder, LAMBDA k : k \in Keys(m))

IterItems(v) ==
    CASE v.t = "list" -> v.v
      [] v.t = "map" -> LET ks == KeysInOrder(v)
                        IN  [i \in 1..Len(ks) |-> StrVal(KeyText(ks[i]))]
      [] v.t = "str" -> [i \in 1..Len(v.v) |-> StrVal(<<v.v[i]>>)]
      [] OTHER -> <<>>

(***************************************************************************)
(* yaml.safe_dump(value): block style, two-space indent, keys sorted, a    *)
(* list under a key starts in the key's column.                            *)
(***************************************************************************)
Spaces(n) == [i \in 1..n |-> " "]

DropFirst(s, n) == SubSeq(s, n + 1, Len(s))

\* A string is written in single quotes when it is empty, would read back
\* as a number, or starts with a YAML indicator character.
ScalarText(v) ==
    CASE v.t = "null" -> <<"n", "u", "l", "l">>
      [] v.t = "bool" -> IF v.v = <<"true">> THEN <<"t", "r", "u", "e">>
                         ELSE <<"f", "a", "l", "s", "e">>
      [] v.t = "int" -> v.v
      [] v.t = "str" ->
           IF \/ v.v = <<>>
              \/ \A i \in 1..Len(v.v) : v.v[i] \in Digits
              \/ v.v[1] \in {"*", "&", "!", "|", ">", "%", "@", "#", "[", "]", "{", "}", ","}
           THEN <<"'">> \o v.v \o <<"'">>
           ELSE v.v

IsScalar(v) == v.t \in {"null", "bool", "int", "str"}

IsEmptyCollection(v) == v.t \in {"list", "map"} /\ v.v = <<>>

FlowText(v) ==
    IF IsScalar(v) THEN ScalarText(v)
    ELSE IF v.t = "list" THEN <<"[", "]">> ELSE <<"{", "}">>

\* The lines of a non-empty list or mapping whose entries start in column
\* n, the keys of each mapping taken in the order of the list order.
RECURSIVE DumpBlock(_, _, _)
RECURSIVE DumpItems(_, _, _)
RECURSIVE DumpFields(_, _, _, _)
DumpBlock(v, n, order) ==
    IF v.t = "list" THEN DumpItems(v.v, n, order)
    ELSE DumpFields(v, SelectSeq(order, LAMBDA k : k \in Keys(v)), n, order)

DumpItems(items, n, order) ==
    IF items = <<>> THEN <<>>
    ELSE LET x == Head(items)
             line == IF IsScalar(x) \/ IsEmptyCollection(x)
                     THEN FlowText(x) \o <<"\n">>
                     ELSE DropFirst(DumpBlock(x, n + 2, order), n + 2)
         IN  Spaces(n) \o <<"-", " ">> \o line \o DumpItems(Tail(items), n, order)

DumpFields(m, ks, n, order) ==
    IF ks = <<>> THEN <<>>
    ELSE LET x == m.v[Head(ks)]
             rest == IF IsScalar(x) \/ IsEmptyCollection(x)
                     THEN <<" ">> \o FlowText(x) \o <<"\n">>
                     ELSE IF x.t = "list" THEN <<"\n">> \o DumpBlock(x, n, order)
                     ELSE <<"\n">> \o DumpBlock(x, n + 2, order)
         IN  Spaces(n) \o KeyText(Head(ks)) \o <<":">> \o rest
             \o DumpFields(m, Tail(ks), n, order)

\* yaml.safe_dump(v)
SafeDump(v) ==
    IF IsScalar(v)
    THEN ScalarText(v) \o <<"\n">>
         \o (IF v.t = "str" /\ ScalarText(v) # v.v THEN <<>>
             ELSE <<".", ".", ".", "\n">>)
    ELSE IF IsEmptyCollection(v) THEN FlowText(v) \o <<"\n">>
    ELSE DumpBlock(v, 0, KeyOrder)

(***************************************************************************)
(* PolicyValidator: validate_cilium_policy on the parsed data.             *)
(***************************************************************************)
CILIUM_KINDS == { StrVal(CNPText), StrVal(CCNPText) }

ErrRoot == "YAML root must be a mapping"

ErrKind == "Not a Cilium {CNP|CCNP} kind"

ErrName == "metadata.name is required"

ErrSpec == "spec is required"

WarnNoRules == "No ingress/egress rules present (might not enforce anything)"

WarnIngress == "Ingress has no L4/L7 ports (coarse allow?)"

WarnEgress == "Egress has no L4/L7 ports (coarse allow?)"

WarnDns == "No explicit DNS egress (add kube-dns:53 or toFQDNs)"

Raise(e) == [tag |-> "raise", err |-> e]

Report(path, errors, warnings, kind, metadata, summary) ==
    [tag |-> "report", path |-> path, errors |-> errors, warnings |-> warnings,
     kind |-> kind, metadata |-> metadata, summary |-> summary]

\* "name" not in meta, negated: a key of a mapping, a substring of a string,
\* an item of a list; "Error" when meta is a number or a boolean.
NameIn(meta) ==
    CASE meta.t = "map" -> IF "name" \in Keys(meta) THEN "True" ELSE "False"
      [] meta.t = "str" -> IF Contains(meta.v, NameText) THEN "True" ELSE "False"
      [] meta.t = "list" ->
           IF \E i \in 1..Len(meta.v) :
                 meta.v[i].t = "str" /\ meta.v[i].v = NameText
           THEN "True" ELSE "False"
      [] OTHER -> "TypeError"

\* The inner loop of _has_l7_ports over the toPorts entries of one rule.
RECURSIVE PortsLoop(_)
PortsLoop(tps) ==
    IF tps = <<>> THEN "False"
    ELSE LET tp == Head(tps)
         IN  IF ~IsMap(tp) THEN "AttributeError"
             ELSE IF Truthy(Get(tp, "ports")) \/ Truthy(Get(tp, "rules")) THEN "True"
             ELSE PortsLoop(Tail(tps))

\* The outer loop of _has_l7_ports over the rules.
RECURSIVE RulesLoop(_)
RulesLoop(rules) ==
    IF rules = <<>> THEN "False"
    ELSE LET rule == Head(rules)
         IN  IF ~IsMap(rule) THEN "AttributeError"
             ELSE LET tps == GetOr(rule, "toPorts", EmptyList)
                  IN  IF ~Iterable(tps) THEN "TypeError"
                      ELSE LET r == PortsLoop(IterItems(tps))
                           IN  IF r = "False" THEN RulesLoop(Tail(rules)) ELSE r

\* _has_l7_ports(rules): "True", "False", or the error it raises.
HasL7Ports(rules) ==
    LET rs == Or(rules, EmptyList)
    IN  IF ~Iterable(rs) THEN "TypeError" ELSE RulesLoop(IterItems(rs))

Text53 == <<"5", "3">>

\* The DNS egress recommendation: TRUE when the warning is due.
DnsWarningDue(egress) ==
    LET text == SafeDump(egress)
    IN  ~Contains(text, Text53) /\ ~Contains(text, KeyText("toFQDNs"))

\* The posture checks of validate_cilium_policy, from "have_ingress" on.
PostureChecks(path, errors, kind, metadata, spec) ==
    LET ingress == Get(spec, "ingress")
        egress == Get(spec, "egress")
        have_ingress == Truthy(ingress)
        have_egress == Truthy(egress)
        summary == { <<"has_ingress", have_ingress>>, <<"has_egress", have_egress>> }
        w0 == IF ~have_ingress /\ ~have_egress THEN <<WarnNoRules>> ELSE <<>>
        l7in == IF have_ingress THEN HasL7Ports(ingress) ELSE "True"
        l7out == IF have_egress THEN HasL7Ports(egress) ELSE "True"
        w1 == IF l7in = "False" THEN <<WarnIngress>> ELSE <<>>
        w2 == IF l7out = "False" THEN <<WarnEgress>> ELSE <<>>
        w3 == IF have_egress /\ DnsWarningDue(egress) THEN <<WarnDns>> ELSE <<>>
    IN  IF l7in \notin {"True", "False"} THEN Raise(l7in)
        ELSE IF l7out \notin {"True", "False"} THEN Raise(l7out)
        ELSE Report(path, errors, w0 \o w1 \o w2 \o w3, kind, metadata, summary)

\* The mutant of ValidateFields: a missing name ends the validation.
ValidateFieldsNameShortCircuits(path, data, kind) ==
    LET meta == Or(GetOr(data, "metadata", EmptyMap), EmptyMap)
        named == NameIn(meta)
        metadata == [k \in {"name", "namespace", "labels"} |-> Get(meta, k)]
        spec == Or(Get(data, "spec"), EmptyMap)
    IN  IF named = "TypeError" THEN Raise("TypeError")
        ELSE IF ~IsMap(meta) THEN Raise("AttributeError")
        ELSE IF named = "False" THEN Report(path, <<ErrName>>, <<>>, kind, metadata, {})
        ELSE IF ~Truthy(spec) THEN Report(path, <<ErrSpec>>, <<>>, kind, metadata, {})
        ELSE IF ~IsMap(spec) THEN Raise("AttributeError")
        ELSE PostureChecks(path, <<>>, kind, metadata, spec)

\* validate_cilium_policy after the kind check: metadata, spec, posture.
ValidateFields(path, data, kind) ==
    LET meta == Or(GetOr(data, "metadata", EmptyMap), EmptyMap)
        named == NameIn(meta)
        e1 == IF named = "False" THEN <<ErrName>> ELSE <<>>
        metadata == [k \in {"name", "namespace", "labels"} |-> Get(meta, k)]
        spec == Or(Get(data, "spec"), EmptyMap)
    IN  IF named = "TypeError" THEN Raise("TypeError")
        ELSE IF ~IsMap(meta) THEN Raise("AttributeError")
        ELSE IF ~Truthy(spec)
             THEN Report(path, e1 \o <<ErrSpec>>, <<>>, kind, metadata, {})
        ELSE IF ~IsMap(spec) THEN Raise("AttributeError")
        ELSE PostureChecks(path, e1, kind, metadata, spec)

\* validate_cilium_policy on the loaded data: the report, or the error raised.
ValidateData(path, data) ==
    IF ~IsMap(data)
    THEN Report(path, <<ErrRoot>>, <<>>, Null, <<>>, {})
    ELSE LET kind == Get(data, "kind")
         IN  IF ~Hashable(kind) THEN Raise("TypeError")
             ELSE IF kind \notin CILIUM_KINDS
                  THEN Report(path, <<ErrKind>>, <<>>, kind, <<>>, {})
             ELSE ValidateFields(path, data, kind)

\* The result dict as validate_cilium_policy leaves it when a check raises:
\* the assignments and appends made before the line that raises.
ResultAtRaise(path, data) ==
    LET kind == Get(data, "kind")
        meta == Or(GetOr(data, "metadata", EmptyMap), EmptyMap)
        named == NameIn(meta)
        e1 == IF named = "False" THEN <<ErrName>> ELSE <<>>
        metadata == [k \in {"name", "namespace", "labels"} |-> Get(meta, k)]
        spec == Or(Get(data, "spec"), EmptyMap)
    IN  IF ~Hashable(kind) \/ named = "TypeError"
        THEN Report(path, <<>>, <<>>, kind, <<>>, {})
        ELSE IF ~IsMap(meta) THEN Report(path, e1, <<>>, kind, <<>>, {})
        ELSE IF ~IsMap(spec) THEN Report(path, e1, <<>>, kind, metadata, {})
        ELSE LET ingress == Get(spec, "ingress")
                 have_ingress == Truthy(ingress)
                 have_egress == Truthy(Get(spec, "egress"))
                 l7in == IF have_ingress THEN HasL7Ports(ingress) ELSE "True"
                 w0 == IF ~have_ingress /\ ~have_egress THEN <<WarnNoRules>> ELSE <<>>
                 w1 == IF l7in = "False" THEN <<WarnIngress>> ELSE <<>>
             IN  Report(path, e1, w0 \o w1, kind, metadata,
                        { <<"has_ingress", have_ingress>>, <<"has_egress", have_egress>> })


(***************************************************************************)
(* The inputs of the glob matcher: patterns are concatenations of at most  *)
(* MaxPatTokens tokens, candidates are relative paths of at most MaxDepth  *)
(* components, as Path.relative_to(...).as_posix() yields them.            *)
(***************************************************************************)
MaxPatTokens == 4

MaxDepth == 2

PatTokens == { <<"a">>, <<"*">>, <<"/">>, <<"*", "*", "/">>,
               <<"{">>, <<"}">>, <<",">> }

Patterns == { Concat(ts) : ts \in SeqsUpTo(PatTokens, MaxPatTokens) } \ { <<>> }

FileNames == { <<"a">>, <<"a", "b">>, <<"{", "a">> }

Candidates == { JoinSlash(cs) : cs \in SeqsUpTo(FileNames, MaxDepth) } \ { <<>> }

\* The data dirs list_files is run on; a directory holds files and
\* directories.  One has the three files at the top, the other has two
\* files beside a directory "a" of two files.
DataDirs ==
    { [files |-> FileNames, dirs |-> {}],
      [files |-> { <<"a", "b">>, <<"{", "a">> },
       dirs |-> { [name |-> <<"a">>, files |-> { <<"a">>, <<"a", "b">> }, dirs |-> {}] }] }

\* os.scandir: the entries of a directory in any order, the filesystem's.
ScandirOrders(S) ==
    { s \in [1..Cardinality(S) -> S] : \A i, j \in DOMAIN s : i # j => s[i] # s[j] }

\* _iter_files(root), every order it can yield the files in: Path.rglob("*")
\* gives the entries of a directory, then those of each of its directories
\* in turn; rel is the directory's path relative to the root.
RECURSIVE IterFiles(_, _)
RECURSIVE IterDirs(_, _)
IterFiles(dir, rel) ==
    { [i \in 1..Len(fs) |-> JoinSlash(rel \o <<fs[i]>>)] \o sub :
        fs \in ScandirOrders(dir.files),
        sub \in UNION { IterDirs(ds, rel) : ds \in ScandirOrders(dir.dirs) } }

IterDirs(ds, rel) ==
    IF ds = <<>> THEN { <<>> }
    ELSE { h \o t : h \in IterFiles(Head(ds), rel \o <<Head(ds).name>>),
                    t \in IterDirs(Tail(ds), rel) }

\* list_files(pattern) over the files as _iter_files yields them: without a
\* pattern (None or "") all of them; else those that match, in that order; a
\* ValueError of _matches ends the call.
ListFiles(files, pattern) ==
    IF pattern = <<>> THEN [tag |-> "files", files |-> files]
    ELSE IF \E i \in 1..Len(files) : Matches(files[i], pattern) = "ValueError"
    THEN [tag |-> "raise", err |-> "ValueError"]
    ELSE [tag |-> "files",
          files |-> SelectSeq(files, LAMBDA f : Matches(f, pattern) = "True")]

(***************************************************************************)
(* The glob specification: a call of _matches or of list_files, then its   *)
(* return.                                                                 *)
(***************************************************************************)
Init ==
    /\ pc = "idle"
    /\ op = "none"
    /\ arg = NoArg
    /\ result = NoResult
    /\ trace = <<>>
    /\ scan = NoScan
    /\ disk = <<>>
    /\ heap = <<>>
    /\ frames = <<>>
    /\ DEFAULT_DATA_DIR = Root
    /\ environ = Root

Return ==
    /\ pc = "done"
    /\ pc' = "idle"
    /\ op' = "none"
    /\ arg' = NoArg
    /\ result' = NoResult
    /\ trace' = <<>>
    /\ scan' = NoScan
    /\ UNCHANGED concVars

MatchesCall ==
    /\ pc = "idle"
    /\ UNCHANGED scan
    /\ \E x \in Candidates, p \in Patterns :
          /\ arg' = [path |-> x, pattern |-> p]
          /\ result' = [tag |-> "match", val |-> Matches(x, p)]
    /\ op' = "matches"
    /\ pc' = "done"
    /\ trace' = <<>>
    /\ UNCHANGED concVars

\* list_files on one of the data dirs; trace keeps the files _iter_files
\* yielded, in the order it yielded them.
ListFilesCall ==
    /\ pc = "idle"
    /\ UNCHANGED scan
    /\ \E p \in Patterns \cup { <<>> }, dir \in DataDirs :
          \E files \in IterFiles(dir, <<>>) :
              /\ arg' = [path |-> <<>>, pattern |-> p]
              /\ trace' = files
              /\ result' = ListFiles(files, p)
    /\ op' = "list_files"
    /\ pc' = "done"
    /\ UNCHANGED concVars

NextGlob == MatchesCall \/ ListFilesCall \/ Return

SpecGlob == Init /\ [][NextGlob]_vars

(***************************************************************************)
(* The documents the validator and the scan are run on.                    *)
(***************************************************************************)
MaxRules == 2

\* Stands for a key that the mapping does not have.
Absent == [t |-> "absent", v |-> <<>>]

\* The mapping with the given <<key, value>> pairs, Absent values left out.
MkMap(pairs) ==
    LET present == { p \in pairs : p[2] # Absent }
    IN  MapVal([k \in { p[1] : p \in present } |->
                   (CHOOSE p \in present : p[1] = k)[2]])

XText == <<"x">>

PodText == <<"P", "o", "d">>

Port(number, protocol) ==
    ListVal(<< MapVal([port |-> number, protocol |-> StrVal(protocol)]) >>)

Ports80 == Port(StrVal(<<"8", "0">>), <<"T", "C", "P">>)

Ports53 == Port(StrVal(<<"5", "3">>), <<"U", "D", "P">>)

ToPortsOpts ==
    { Null,
      StrVal(XText),
      ListVal(<< StrVal(XText) >>),
      ListVal(<< EmptyMap >>),
      ListVal(<< MapVal([ports |-> Ports80]) >>),
      ListVal(<< MapVal([ports |-> Ports53]) >>),
      ListVal(<< MapVal([rules |-> MapVal([dns |-> EmptyList])]) >>),
      ListVal(<< EmptyMap, MapVal([ports |-> Ports80]) >>) }

RuleOpts ==
    { EmptyMap, StrVal(XText),
      MapVal([toFQDNs |-> ListVal(<< MapVal([matchName |-> StrVal(XText)]) >>)]),
      MapVal([note |-> IntVal(<<"8", "0", "5", "3">>)]) }
    \cup { MapVal([toPorts |-> tp]) : tp \in ToPortsOpts }

\* What the ingress or egress key may hold when it is not a list of rules.
NonListOpts ==
    { Absent, Null, StrVal(XText), IntVal(<<"7">>), BoolVal(TRUE),
      MapVal([note |-> StrVal(XText)]) }

RuleLists(n) == { ListVal(rs) : rs \in SeqsUpTo(RuleOpts, n) }

\* The (ingress, egress) pairs with at most MaxRules rules in all.
DirectionPairs ==
    UNION { (NonListOpts \cup RuleLists(i)) \X (NonListOpts \cup RuleLists(MaxRules - i)) :
            i \in 0..MaxRules }

KindOpts ==
    { Absent, Null, StrVal(CNPText), StrVal(CCNPText), StrVal(PodText),
      IntVal(<<"7">>), EmptyList, MapVal([name |-> StrVal(XText)]) }

MetaOpts ==
    { Absent, Null, EmptyMap, EmptyList, StrVal(<<>>),
      MapVal([name |-> StrVal(XText)]),
      MapVal([namespace |-> StrVal(XText)]),
      MapVal([name |-> StrVal(XText), namespace |-> StrVal(XText),
              labels |-> MapVal([app |-> StrVal(XText)])]),
      StrVal(XText), StrVal(NameText), ListVal(<< StrVal(NameText) >>),
      IntVal(<<"7">>) }

SpecShapeOpts ==
    { Absent, Null, EmptyMap, EmptyList, StrVal(<<>>), IntVal(<<"0">>),
      BoolVal(FALSE), StrVal(XText), ListVal(<< EmptyMap >>), IntVal(<<"7">>),
      MapVal([endpointSelector |-> EmptyMap]),
      MapVal([ingress |-> ListVal(<< EmptyMap >>), egress |-> ListVal(<< EmptyMap >>)]) }

\* Documents that vary the shape of kind, metadata and spec.
ShapeDocs ==
    { MkMap({ <<"kind", k>>, <<"metadata", m>>, <<"spec", sp>> }) :
        k \in KindOpts, m \in MetaOpts, sp \in SpecShapeOpts }

\* Documents of a recognized kind that vary the ingress and egress rules.
RuleDocs ==
    { MkMap({ <<"kind", k>>, <<"metadata", m>>,
              <<"spec", MkMap({ <<"ingress", d[1]>>, <<"egress", d[2]>> })>> }) :
        k \in CILIUM_KINDS,
        m \in { EmptyMap, MapVal([name |-> StrVal(XText)]) },
        d \in DirectionPairs }

\* Documents whose root is not a mapping.
RootDocs == { Null, StrVal(XText), IntVal(<<"7">>), EmptyList, ListVal(<< EmptyMap >>) }

Docs == ShapeDocs \cup RuleDocs \cup RootDocs

WebYaml == <<"w", "e", "b", ".", "y", "a", "m", "l">>

(***************************************************************************)
(* The validator specification: validate_cilium_policy on a file of the    *)
(* data dir that holds the document, then its return.                      *)
(***************************************************************************)
ValidateCall ==
    /\ pc = "idle"
    /\ UNCHANGED scan
    /\ \E d \in Docs :
          /\ arg' = [path |-> WebYaml, data |-> d]
          /\ result' = ValidateData(WebYaml, d)
    /\ op' = "validate"
    /\ pc' = "done"
    /\ trace' = <<>>
    /\ UNCHANGED concVars

NextValidate == ValidateCall \/ Return

SpecValidate == Init /\ [][NextValidate]_vars

(***************************************************************************)
(* validate_cilium_policy(path): the sandbox, the read, the parse, then    *)
(* the validation of the data.                                             *)
(***************************************************************************)
\* yaml.safe_load of each file's text: the value, or Absent for a text that
\* does not parse.
YamlLoad(fp) ==
    CASE fp = <<"data", "a.txt">> ->
           StrVal(<<"h", "e", "l", "l", "o", " ", "w", "o", "r", "l", "d">>)
      [] fp = <<"data", "a", "b.yaml">> -> MapVal([kind |-> StrVal(PodText)])
      [] fp = <<"data", "bad.yaml">> -> Absent
      [] fp = <<"etc", "passwd">> -> StrVal(<<"s", "e", "c", "r", "e", "t">>)
      [] fp = <<"data2", "x">> -> StrVal(<<"s", "i", "b", "l", "i", "n", "g">>)

ValidateCiliumPolicy(p) ==
    LET fp == Resolve(JoinPath(Root, ParsePath(p.abs, p.segs)))
        read == ReadFile(fp)
    IN  IF ~EnforceUnder(fp, Root)
        THEN [result |-> Raise("PermissionError"), trace |-> <<CheckEvent(fp, FALSE)>>]
        ELSE [result |-> IF read.tag = "raise" THEN read
                         ELSE IF YamlLoad(fp) = Absent THEN Raise("YAMLError")
                         ELSE ValidateData(p.segs, YamlLoad(fp)),
              trace |-> <<CheckEvent(fp, TRUE), ReadEvent(fp)>>]

(***************************************************************************)
(* The sandbox specification: a call of read_text, validate_cilium_policy  *)
(* or read_resource with a path of at most MaxSegs segments, then its      *)
(* return.                                                                 *)
(***************************************************************************)
MaxSegs == 3

Segments == { "a", "a.txt", "b.yaml", "bad.yaml", "..", ".", "etc", "passwd",
              "data", "data2", "x", "link" }

UserPaths == [abs : BOOLEAN, segs : SeqsUpTo(Segments, MaxSegs)]

Uris == [scheme : {"file://", "http://"}, abs : BOOLEAN,
         segs : SeqsUpTo(Segments, MaxSegs)]

ReadTextCall ==
    /\ pc = "idle"
    /\ UNCHANGED scan
    /\ \E p \in UserPaths :
          /\ arg' = p
          /\ result' = ReadText(p).result
          /\ trace' = ReadText(p).trace
    /\ op' = "read_text"
    /\ pc' = "done"
    /\ UNCHANGED concVars

ValidatePathCall ==
    /\ pc = "idle"
    /\ UNCHANGED scan
    /\ \E p \in UserPaths :
          /\ arg' = p
          /\ result' = ValidateCiliumPolicy(p).result
          /\ trace' = ValidateCiliumPolicy(p).trace
    /\ op' = "validate_cilium_policy"
    /\ pc' = "done"
    /\ UNCHANGED concVars

ReadResourceCall ==
    /\ pc = "idle"
    /\ UNCHANGED scan
    /\ \E u \in Uris :
          /\ arg' = u
          /\ result' = ReadResource(u).result
          /\ trace' = ReadResource(u).trace
    /\ op' = "read_resource"
    /\ pc' = "done"
    /\ UNCHANGED concVars

NextSandbox == ReadTextCall \/ ValidatePathCall \/ ReadResourceCall \/ Return

SpecSandbox == Init /\ [][NextSandbox]_vars

(***************************************************************************)
(* PostureAggregator: zero_trust_checklist, one corpus entry per step.     *)
(***************************************************************************)
Lower(c) ==
    CASE c = "Y" -> "y" [] c = "A" -> "a" [] c = "M" -> "m" [] c = "L" -> "l"
      [] OTHER -> c

\* The last index of character c in s, or 0.
RECURSIVE LastIndexFrom(_, _, _)
LastIndexFrom(s, c, i) ==
    IF i = 0 THEN 0 ELSE IF s[i] = c THEN i ELSE LastIndexFrom(s, c, i - 1)

\* PurePath.suffix of a relative path, lower-cased.
LowerSuffix(path) ==
    LET name == Last(Split(path, "/"))
        i == LastIndexFrom(name, ".", Len(name))
        suffix == IF 1 < i /\ i < Len(name) THEN SubSeq(name, i, Len(name)) ELSE <<>>
    IN  [k \in 1..Len(suffix) |-> Lower(suffix[k])]

YamlSuffixes == { <<".", "y", "a", "m", "l">>, <<".", "y", "m", "l">> }

PortQuoted53 == <<"p", "o", "r", "t", ":", " ", "'", "5", "3", "'">>

PortPlain53 == <<"p", "o", "r", "t", ":", " ", "5", "3">>

\* The loop over one section's toPorts: TRUE when an entry has ports or
\* rules, "AttributeError" at an entry that is not a mapping.
RECURSIVE SectionPorts(_)
SectionPorts(tps) ==
    IF tps = <<>> THEN "False"
    ELSE LET tp == Head(tps)
             later == SectionPorts(Tail(tps))
         IN  IF ~IsMap(tp) THEN "AttributeError"
             ELSE IF later \notin {"True", "False"} THEN later
             ELSE IF Truthy(Get(tp, "ports")) \/ Truthy(Get(tp, "rules")) THEN "True"
             ELSE later

\* One section of the scan: its l7 and dns flags, or the error raised.
ScanSection(section) ==
    IF ~IsMap(section) THEN Raise("AttributeError")
    ELSE LET tps == Or(GetOr(section, "toPorts", EmptyList), EmptyList)
             l7 == SectionPorts(IterItems(tps))
             txt == SafeDump(section)
         IN  IF ~Iterable(tps) THEN Raise("TypeError")
             ELSE IF l7 \notin {"True", "False"} THEN Raise(l7)
             ELSE [tag |-> "flags", l7 |-> l7 = "True",
                   dns |-> \/ Truthy(Get(section, "toFQDNs"))
                           \/ Contains(txt, PortQuoted53)
                           \/ Contains(txt, PortPlain53)]

\* The loop over the sections, the flags so far carried along.
RECURSIVE ScanSections(_, _, _)
ScanSections(sections, l7, dns) ==
    IF sections = <<>> THEN [tag |-> "flags", l7 |-> l7, dns |-> dns]
    ELSE LET r == ScanSection(Head(sections))
         IN  IF r.tag = "raise" THEN r
             ELSE ScanSections(Tail(sections), l7 \/ r.l7, dns \/ r.dns)

\* (spec.get("ingress") or []) + (spec.get("egress") or []), then iterated:
\* two lists concatenate, two strings concatenate into a string whose
\* characters are then the sections, anything else raises TypeError.
SectionsOf(spec) ==
    LET a == Or(Get(spec, "ingress"), EmptyList)
        b == Or(Get(spec, "egress"), EmptyList)
    IN  IF a.t = "list" /\ b.t = "list" THEN [tag |-> "sections", v |-> a.v \o b.v]
        ELSE IF a.t = "str" /\ b.t = "str"
             THEN [tag |-> "sections", v |-> IterItems(a) \o IterItems(b)]
        ELSE Raise("TypeError")

\* One iteration of the loop of zero_trust_checklist on the file rel, whose
\* text loads as content (Absent: it does not read or parse): the entry is
\* skipped, or counted with its flags, or the call raises.
ScanEntry(rel, content, glob) ==
    LET matched == IF glob = <<>> THEN "True" ELSE Matches(rel, glob)
    IN  IF matched = "ValueError" THEN Raise("ValueError")
        ELSE IF matched = "False" THEN [tag |-> "skip"]
        ELSE IF LowerSuffix(rel) \notin YamlSuffixes THEN [tag |-> "skip"]
        ELSE IF content = Absent THEN [tag |-> "skip"]
        ELSE IF ~IsMap(content) THEN [tag |-> "skip"]
        ELSE LET kind == Get(content, "kind")
                 spec == Or(Get(content, "spec"), EmptyMap)
             IN  IF ~Hashable(kind) THEN Raise("TypeError")
                 ELSE IF kind \notin CILIUM_KINDS THEN [tag |-> "skip"]
                 ELSE IF ~IsMap(spec) THEN Raise("AttributeError")
                 ELSE IF SectionsOf(spec).tag = "raise" THEN SectionsOf(spec)
                 ELSE LET f == ScanSections(SectionsOf(spec).v, FALSE, FALSE)
                      IN  IF f.tag = "raise" THEN f
                          ELSE [tag |-> "row", kind |-> kind, l7 |-> f.l7, dns |-> f.dns]

ZeroStats == [total |-> 0, cnp |-> 0, ccnp |-> 0, with_l7 |-> 0, dns_ok |-> 0]

\* stats["total"] += 1 and the cnp or ccnp increment.
CountKind(stats, kind) ==
    [stats EXCEPT !.total = @ + 1,
                  !.cnp = @ + (IF kind = StrVal(CNPText) THEN 1 ELSE 0),
                  !.ccnp = @ + (IF kind = StrVal(CNPText) THEN 0 ELSE 1)]

\* The mutant of the counters: dns_ok is incremented for every counted entry.
CountDnsAlways(stats, row) ==
    [CountKind(stats, row.kind) EXCEPT
        !.with_l7 = @ + (IF row.l7 THEN 1 ELSE 0),
        !.dns_ok = @ + 1]

\* The counters after a counted entry.
Count(stats, row) ==
    [CountKind(stats, row.kind) EXCEPT
        !.with_l7 = @ + (IF row.l7 THEN 1 ELSE 0),
        !.dns_ok = @ + (IF row.dns THEN 1 ELSE 0)]

\* The entry gets past every skip and the kind test, so that the kind
\* counters are incremented before anything later in the loop body runs.
ReachesCount(rel, content, glob) ==
    /\ glob = <<>> \/ Matches(rel, glob) = "True"
    /\ LowerSuffix(rel) \in YamlSuffixes
    /\ IsMap(content)
    /\ Hashable(Get(content, "kind"))
    /\ Get(content, "kind") \in CILIUM_KINDS

Detail(rel, row) == [path |-> rel, kind |-> row.kind, l7 |-> row.l7, dns_handled |-> row.dns]

(***************************************************************************)
(* The corpora of the scan: up to MaxCorpus distinct files of the data     *)
(* dir, in any order (the traversal order is the filesystem's).            *)
(***************************************************************************)
MaxCorpus == 3

Policy(kind, spec) ==
    MapVal([kind |-> StrVal(kind), metadata |-> MapVal([name |-> StrVal(XText)]),
            spec |-> spec])

FqdnRule == MapVal([toFQDNs |-> ListVal(<< MapVal([matchName |-> StrVal(XText)]) >>)])

\* Each file's relative path and what its text loads as.
CorpusEntries ==
    { [path |-> <<"a", ".", "y", "a", "m", "l">>,
       content |-> Policy(CNPText, MapVal([ingress |->
                       ListVal(<< MapVal([toPorts |-> ListVal(<< MapVal([ports |-> Ports80]) >>)]) >>)]))],
      [path |-> <<"b", ".", "y", "m", "l">>,
       content |-> Policy(CCNPText, MapVal([egress |-> ListVal(<< FqdnRule >>)]))],
      [path |-> <<"s", "/", "i", ".", "Y", "M", "L">>,
       content |-> Policy(CNPText, MapVal([egress |->
                       ListVal(<< MapVal([toPorts |-> ListVal(<< MapVal([ports |-> Ports53]) >>)]) >>)]))],
      [path |-> <<"j", ".", "y", "a", "m", "l">>,
       content |-> Policy(CNPText, MapVal([ingress |-> ListVal(<< EmptyMap >>),
                                           egress |-> ListVal(<< MapVal([toPorts |-> Null]) >>)]))],
      [path |-> <<"p", ".", "y", "a", "m", "l">>,
       content |-> Policy(CNPText, MapVal([egress |-> ListVal(<< FqdnRule >>)]))],
      [path |-> <<"q", ".", "y", "a", "m", "l">>,
       content |-> Policy(CNPText, MapVal([egress |-> ListVal(<< FqdnRule, EmptyMap >>)]))],
      [path |-> <<"n", ".", "t", "x", "t">>,
       content |-> Policy(CNPText, MapVal([egress |-> ListVal(<< FqdnRule >>)]))],
      [path |-> <<"c", ".", "y", "a", "m", "l">>, content |-> Absent],
      [path |-> <<"d", ".", "y", "a", "m", "l">>, content |-> ListVal(<< StrVal(XText) >>)],
      [path |-> <<"e", ".", "y", "a", "m", "l">>, content |-> MapVal([kind |-> StrVal(PodText)])],
      [path |-> <<"f", ".", "y", "a", "m", "l">>, content |-> Policy(CNPText, StrVal(XText))],
      [path |-> <<"g", ".", "y", "a", "m", "l">>,
       content |-> Policy(CNPText, MapVal([ingress |-> ListVal(<< StrVal(XText) >>)]))],
      [path |-> <<"h", ".", "y", "a", "m", "l">>,
       content |-> Policy(CCNPText, MapVal([ingress |-> MapVal([note |-> StrVal(XText)])]))],
      [path |-> <<"k", ".", "y", "a", "m", "l">>, content |-> MapVal([kind |-> ListVal(<< StrVal(CNPText) >>)])] }

Corpora ==
    { c \in SeqsUpTo(CorpusEntries, MaxCorpus) :
        \A i, j \in 1..Len(c) : i # j => c[i].path # c[j].path }

DefaultGlob == <<"*", "*", "/", "*", ".", "{", "y", "m", "l", ",", "y", "a", "m", "l", "}">>

ScanGlobs == { DefaultGlob, <<>>, <<"*", ".", "y", "a", "m", "l">> }

(***************************************************************************)
(* The scan specification: zero_trust_checklist starts, takes one corpus   *)
(* entry per step and returns, or raises at an entry.                      *)
(***************************************************************************)
ScanStart ==
    /\ pc = "idle"
    /\ \E c \in Corpora, g \in ScanGlobs :
          /\ arg' = [path_glob |-> g]
          /\ scan' = [active |-> TRUE, corpus |-> c, idx |-> 1,
                      stats |-> ZeroStats, details |-> <<>>]
    /\ op' = "zero_trust_checklist"
    /\ pc' = "scanning"
    /\ UNCHANGED <<result, trace>>
    /\ UNCHANGED concVars

ScanStep ==
    /\ pc = "scanning"
    /\ scan.idx <= Len(scan.corpus)
    /\ LET e == scan.corpus[scan.idx]
           r == ScanEntry(e.path, e.content, arg.path_glob)
       IN  CASE r.tag = "raise" ->
                  /\ result' = r
                  /\ pc' = "done"
                  /\ scan' = IF ReachesCount(e.path, e.content, arg.path_glob)
                             THEN [scan EXCEPT !.stats =
                                      CountKind(@, Get(e.content, "kind"))]
                             ELSE scan
             [] r.tag = "skip" ->
                  /\ scan' = [scan EXCEPT !.idx = @ + 1]
                  /\ UNCHANGED <<pc, result>>
             [] r.tag = "row" ->
                  /\ scan' = [scan EXCEPT !.idx = @ + 1,
                                          !.stats = Count(@, r),
                                          !.details = Append(@, Detail(e.path, r))]
                  /\ UNCHANGED <<pc, result>>
    /\ UNCHANGED <<op, arg, trace>>
    /\ UNCHANGED concVars

ScanFinish ==
    /\ pc = "scanning"
    /\ scan.idx > Len(scan.corpus)
    /\ result' = [tag |-> "scan", stats |-> scan.stats, details |-> scan.details]
    /\ pc' = "done"
    /\ UNCHANGED <<op, arg, trace, scan>>
    /\ UNCHANGED concVars

NextScan == ScanStart \/ ScanStep \/ ScanFinish \/ Return

SpecScan == Init /\ [][NextScan]_vars

(***************************************************************************)
(* TemplateGenerator: generate_policy_template.                            *)
(***************************************************************************)
\* The mutant of port_obj: a port string without "/" gets protocol UDP.
PortObjUdpDefault(p) ==
    IF HasChar(p, "/")
    THEN LET parts == Split(p, "/")
         IN  IF Len(parts) # 2 THEN [t |-> "raise", v |-> "ValueError"]
             ELSE MapVal([ports |-> Port(StrVal(parts[1]), parts[2])])
    ELSE MapVal([ports |-> Port(StrVal(p), <<"U", "D", "P">>)])

\* port_obj(p): the unpacking of p.split("/") into port and proto raises
\* ValueError unless the split has exactly two parts.
PortObj(p) ==
    IF HasChar(p, "/")
    THEN LET parts == Split(p, "/")
         IN  IF Len(parts) # 2 THEN [t |-> "raise", v |-> "ValueError"]
             ELSE MapVal([ports |-> Port(StrVal(parts[1]), parts[2])])
    ELSE MapVal([ports |-> Port(StrVal(p), <<"T", "C", "P">>)])

\* The keys of the template in the order the dict literals give them, which
\* safe_dump(doc, sort_keys=False) keeps.
InsertionOrder ==
    << "apiVersion", "kind", "metadata", "name", "namespace", "spec",
       "endpointSelector", "matchLabels", "k8s:io.kubernetes.pod.namespace", "app",
       "k8s-app", "ingress", "fromEndpoints", "egress", "toFQDNs", "matchName",
       "toEndpoints", "toPorts", "ports", "port", "protocol" >>

\* The dict doc that generate_policy_template builds, for the port objects
\* toPorts and the FQDN list fqdns.
TemplateDoc(app, namespace, toPorts, fqdns) ==
    MkMap({
      <<"apiVersion", StrVal(<<"c", "i", "l", "i", "u", "m", ".", "i", "o", "/", "v", "2">>)>>,
      <<"kind", StrVal(CNPText)>>,
      <<"metadata", MapVal([name |-> StrVal(app \o <<"-", "z", "t", "p">>),
                            namespace |-> StrVal(namespace)])>>,
      <<"spec", MapVal([
          endpointSelector |-> MapVal([matchLabels |->
              MkMap({ <<"k8s:io.kubernetes.pod.namespace", StrVal(namespace)>>,
                      <<"app", StrVal(app)>> })]),
          ingress |-> ListVal(<<
              MapVal([fromEndpoints |->
                          ListVal(<< MapVal([matchLabels |-> MapVal([app |-> StrVal(app)])]) >>),
                      toPorts |-> ListVal(toPorts)]) >>),
          egress |-> ListVal(<<
              MapVal([toFQDNs |-> ListVal([i \in 1..Len(fqdns) |->
                                              MapVal([matchName |-> fqdns[i]])])]),
              MapVal([toEndpoints |-> ListVal(<< MapVal([matchLabels |->
                          MkMap({ <<"k8s:io.kubernetes.pod.namespace",
                                    StrVal(<<"k", "u", "b", "e", "-", "s", "y", "s", "t", "e", "m">>)>>,
                                  <<"k8s-app", StrVal(<<"k", "u", "b", "e", "-", "d", "n", "s">>)>> })]) >>),
                      toPorts |-> ListVal(<< MapVal([ports |->
                          Port(StrVal(<<"5", "3">>), <<"U", "D", "P">>)]) >>)]) >>)])>> })

\* generate_policy_template: the defaults, the port objects, the dict and
\* its dump in insertion order.
GeneratePolicyTemplate(app, namespace, ingress_ports, egress_fqdns) ==
    LET ports == Or(ingress_ports,
                    ListVal(<< StrVal(<<"8", "0", "/", "T", "C", "P">>), StrVal(<<"4", "4", "3", "/", "T", "C", "P">>) >>))
        fqdns == Or(egress_fqdns, ListVal(<< StrVal(<<"*", ".", "a", "m", "a", "z", "o", "n", "a", "w", "s", ".", "c", "o", "m">>) >>))
        toPorts == [i \in 1..Len(ports.v) |-> PortObj(ports.v[i].v)]
    IN  IF \E i \in 1..Len(toPorts) : toPorts[i].t = "raise"
        THEN Raise("ValueError")
        ELSE [tag |-> "text",
              text |-> DumpBlock(TemplateDoc(app, namespace, toPorts, fqdns.v),
                                 0, InsertionOrder)]

(***************************************************************************)
(* The template specification: a call of generate_policy_template with an  *)
(* app, a namespace and, each absent or a list of up to MaxListArg         *)
(* strings, the ingress ports and the egress FQDNs; then its return.       *)
(***************************************************************************)
MaxListArg == 2

TemplateArgs ==
    LET lists(S) == {Null} \cup { ListVal(l) : l \in SeqsUpTo({ StrVal(x) : x \in S },
                                                              MaxListArg) }
    IN  [app : { <<"w", "e", "b">>, <<"1">> },
         namespace : { <<"p", "r", "o", "d">>, <<"7">> },
         ingress_ports : lists({ <<"8", "0", "/", "T", "C", "P">>, <<"5", "3">>, <<"8", "0", "8", "0", "/", "U", "D", "P">>, <<"1", "/", "2", "/", "3">>, <<>> }),
         egress_fqdns : lists({ <<"*", ".", "a", "m", "a", "z", "o", "n", "a", "w", "s", ".", "c", "o", "m">>, <<"e", "x", "a", "m", "p", "l", "e", ".", "c", "o", "m">> })]

TemplateCall ==
    /\ pc = "idle"
    /\ \E a \in TemplateArgs :
          /\ arg' = a
          /\ result' = GeneratePolicyTemplate(a.app, a.namespace, a.ingress_ports,
                                              a.egress_fqdns)
    /\ op' = "generate_policy_template"
    /\ pc' = "done"
    /\ UNCHANGED <<trace, scan, concVars>>

NextTemplate == TemplateCall \/ Return

SpecTemplate == Init /\ [][NextTemplate]_vars

(***************************************************************************)
(* Concurrent serving: a transport that runs NumCalls tool calls at once,  *)
(* here calls of zero_trust_checklist and validate_cilium_policy, while    *)
(* ingest.unzip extracts files into a data dir and the UI reloads the      *)
(* module on another data dir.  Each call has a frame with its local       *)
(* variables; the dicts and lists it creates are objects of the heap,      *)
(* which a frame holds by address.  The heap has one store per kind of     *)
(* object: the stats dicts, the details lists and the validation result    *)
(* dicts.                                                                  *)
(***************************************************************************)
NumCalls == 2

CallIds == 1..NumCalls

Roles == {"stats", "details", "report"}

NoRefs == [r \in Roles |-> 0]

\* The directories the module is loaded on: the default one and another one.
DataRoots == { Root, <<"data2">> }

\* A frame.  For a scan, root and listing are the argument and the
\* directory entries held by the generator of _iter_files and idx is the
\* position of the loop in listing (0: the directory is not listed yet).
\* They are dropped when the call is over.  For a validation, root is the
\* DEFAULT_DATA_DIR that fp was built from.  moved records that a data dir or
\* DEFAULT_DATA_DIR changed since the call was entered.
IdleFrame ==
    [pc |-> "idle", op |-> "none", arg |-> NoArg, refs |-> NoRefs, idx |-> 0,
     root |-> <<>>, listing |-> <<>>, result |-> NoResult,
     moved |-> FALSE]

\* The mutant of object creation: a dict or list literal yields one shared
\* instance.
SharedObject(store, c) == 1

\* A dict or list literal creates a new object: an address no live object
\* has.  Which one is the allocator's choice; call c is given address c,
\* which is free once the objects of c's previous call are collected.
NewObject(store, c) ==
    IF c \notin DOMAIN store THEN c
    ELSE CHOOSE a \in 1..(NumCalls + 1) : a \notin DOMAIN store

\* The store with the object obj at address a.
Put(store, a, obj) == [x \in DOMAIN store \cup {a} |-> IF x = a THEN obj ELSE store[x]]

\* Reference counting: the objects no frame refers to are gone.
Collect(h, fs) ==
    [r \in Roles |->
        [a \in { x \in DOMAIN h[r] : \E c \in CallIds : fs[c].refs[r] = x } |-> h[r][a]]]

\* The files of the archive ingest.unzip extracts into the default data
\* dir: a counted policy with ingress ports (a.yaml).
DiskEntries ==
    { e \in CorpusEntries :
        e.path \in { <<"a", ".", "y", "a", "m", "l">> } }

\* The files an earlier ingest left in the default data dir: a counted policy
\* with egress FQDNs (p.yaml).
DataFiles ==
    << CHOOSE e \in CorpusEntries : e.path = <<"p", ".", "y", "a", "m", "l">> >>

\* The files of the other data dir: a policy whose spec is a string (f.yaml).
OtherFiles ==
    << CHOOSE e \in CorpusEntries : e.path = <<"f", ".", "y", "a", "m", "l">> >>

\* fp.read_text and yaml.safe_load of the file named path among the files d.
DiskLoad(d, path) ==
    IF \A i \in 1..Len(d) : d[i].path # path THEN Raise("FileNotFoundError")
    ELSE LET e == d[CHOOSE i \in 1..Len(d) : d[i].path = path]
         IN  IF e.content = Absent THEN Raise("YAMLError")
             ELSE [tag |-> "data", v |-> e.content]

\* The result dict as line 184 creates it.
FreshReport(path) == Report(path, <<>>, <<>>, Null, <<>>, {})

\* The appends and assignments the checks make on the result dict.
ApplyChecks(obj, r) ==
    [obj EXCEPT !.errors = @ \o r.errors,
                !.warnings = @ \o r.warnings,
                !.kind = r.kind,
                !.metadata = r.metadata,
                !.summary = @ \cup r.summary]

\* The calls in progress see the change of a data dir or of DEFAULT_DATA_DIR.
Moved(fs) ==
    [c \in CallIds |-> IF fs[c].pc = "idle" THEN fs[c] ELSE [fs[c] EXCEPT !.moved = TRUE]]

InitReenter ==
    /\ pc = "idle"
    /\ op = "none"
    /\ arg = NoArg
    /\ result = NoResult
    /\ trace = <<>>
    /\ scan = NoScan
    /\ disk = [d \in DataRoots |-> IF d = Root THEN DataFiles ELSE OtherFiles]
    /\ heap = [r \in Roles |-> <<>>]
    /\ frames = [c \in CallIds |-> IdleFrame]
    /\ DEFAULT_DATA_DIR = Root
    /\ environ = Root

\* ingest.unzip(zip_path, dest) with the default dest of ingest.main, the
\* default data dir; ZipFile.extractall opens the target for writing: a new
\* file appears, at any place in the directory's order, and a file that is
\* there is truncated.  The empty text loads as None.
UnzipCreate ==
    /\ \E e \in DiskEntries :
          IF \A k \in 1..Len(disk[Root]) : disk[Root][k].path # e.path
          THEN \E i \in 0..Len(disk[Root]) :
                  disk' = [disk EXCEPT ![Root] =
                              SubSeq(@, 1, i) \o << [e EXCEPT !.content = Null] >>
                                  \o SubSeq(@, i + 1, Len(@))]
          ELSE LET k == CHOOSE k \in 1..Len(disk[Root]) : disk[Root][k].path = e.path
               IN  /\ disk[Root][k].content # Null
                   /\ disk' = [disk EXCEPT ![Root][k].content = Null]
    /\ frames' = Moved(frames)
    /\ UNCHANGED <<heap, DEFAULT_DATA_DIR, environ, seqVars>>

\* ZipFile.extractall writes the member's text into the file it opened.
UnzipWrite ==
    /\ \E k \in 1..Len(disk[Root]) : \E e \in DiskEntries :
          /\ disk[Root][k].path = e.path
          /\ disk[Root][k].content = Null
          /\ disk' = [disk EXCEPT ![Root][k].content = e.content]
    /\ frames' = Moved(frames)
    /\ UNCHANGED <<heap, DEFAULT_DATA_DIR, environ, seqVars>>

\* ui/app.py _reload_server(data_dir), line 15: the environment variable is
\* set.
SetEnviron(data_dir) ==
    /\ environ' = data_dir
    /\ UNCHANGED <<disk, heap, frames, DEFAULT_DATA_DIR, seqVars>>

\* ui/app.py _reload_server, lines 17-18: the module is executed again in
\* place, which reads the environment variable back (server.py line 19) and
\* rebinds DEFAULT_DATA_DIR for the calls in progress too.  It is the step
\* of a _reload_server that has set the variable and not yet reloaded;
\* without a directory to change there is nothing to see.
ReloadModule ==
    /\ DEFAULT_DATA_DIR # environ
    /\ DEFAULT_DATA_DIR' = environ
    /\ frames' = Moved(frames)
    /\ UNCHANGED <<disk, heap, environ, seqVars>>

\* zero_trust_checklist is entered (lines 284-287): stats and details are
\* created.
ScanBegin(c) ==
    /\ frames[c].pc = "idle"
    /\ \E g \in {DefaultGlob} :
          LET s == NewObject(heap.stats, c)
              d == NewObject(heap.details, c)
          IN  /\ heap' = [heap EXCEPT !.stats = Put(@, s, ZeroStats),
                                      !.details = Put(@, d, <<>>)]
              /\ frames' = [frames EXCEPT ![c] =
                               [IdleFrame EXCEPT !.pc = "entered",
                                                 !.op = "zero_trust_checklist",
                                                 !.arg = [path_glob |-> g],
                                                 !.refs = [NoRefs EXCEPT !.stats = s,
                                                                         !.details = d]]]
    /\ UNCHANGED <<disk, DEFAULT_DATA_DIR, environ, seqVars>>

\* Line 289, the iterable of the for statement: _iter_files is called on
\* DEFAULT_DATA_DIR as it is now, which creates the generator; nothing of
\* the directory is read yet.
ScanIterFiles(c) ==
    /\ frames[c].pc = "entered"
    /\ frames' = [frames EXCEPT ![c].pc = "scanning", ![c].root = DEFAULT_DATA_DIR]
    /\ UNCHANGED <<disk, heap, DEFAULT_DATA_DIR, environ, seqVars>>

\* The generator of _iter_files as the loop of frame f finds it: asked for
\* the first time it runs lines 25-27 and lists the directory it was
\* created on (Path.rglob reads the entries of a directory at once).
Generator(f) ==
    IF f.idx = 0
    THEN [listing |-> [i \in 1..Len(disk[f.root]) |-> disk[f.root][i].path], idx |-> 1]
    ELSE [listing |-> f.listing, idx |-> f.idx]

\* Line 289, the for statement of call c asks the generator for the next
\* file: there is one, and the loop body is next; or the generator is
\* exhausted and line 325 returns {"stats": stats, "details": details}.
ScanNext(c) ==
    /\ frames[c].pc = "scanning"
    /\ LET f == frames[c]
           g == Generator(f)
       IN  frames' = [frames EXCEPT ![c] =
                         IF g.idx <= Len(g.listing)
                         THEN [f EXCEPT !.pc = "body", !.listing = g.listing,
                                        !.idx = g.idx]
                         ELSE [f EXCEPT
                                  !.pc = "done",
                                  !.idx = 0, !.root = <<>>, !.listing = <<>>,
                                  !.result = [tag |-> "scan",
                                              stats |-> heap.stats[f.refs.stats],
                                              details |-> heap.details[f.refs.details]]]]
    /\ UNCHANGED <<disk, heap, DEFAULT_DATA_DIR, environ, seqVars>>

\* Line 290, the path of the file relative to DEFAULT_DATA_DIR as it is
\* now: a ValueError when the module was reloaded on another directory
\* since the generator was created.
ScanRelativeTo(c) ==
    /\ frames[c].pc = "body"
    /\ frames' = [frames EXCEPT ![c] =
                     IF @.root # DEFAULT_DATA_DIR
                     THEN [@ EXCEPT !.pc = "done", !.result = Raise("ValueError"),
                                    !.idx = 0, !.root = <<>>, !.listing = <<>>]
                     ELSE [@ EXCEPT !.pc = "reading"]]
    /\ UNCHANGED <<disk, heap, DEFAULT_DATA_DIR, environ, seqVars>>

\* The files a data dir can hold, each as it reads while empty and once
\* written.
ReadableFiles ==
    LET fs == DiskEntries \cup { DataFiles[1], OtherFiles[1] }
    IN  fs \cup { [e EXCEPT !.content = Null] : e \in fs }

\* Lines 291-323 on each of these files under the default glob: ScanEntry,
\* worked out once for all the calls.
ScanEntryOf ==
    [e \in ReadableFiles |-> ScanEntry(e.path, e.content, DefaultGlob)]

\* Lines 291-323, the rest of the loop body of call c: the skips by glob
\* and suffix, the file read as it is now and parsed, the skips by shape
\* and kind, the counters and the row.
ScanBody(c) ==
    /\ frames[c].pc = "reading"
    /\ LET f == frames[c]
           rel == f.listing[f.idx]
           loaded == DiskLoad(disk[f.root], rel)
           content == IF loaded.tag = "raise" THEN Absent ELSE loaded.v
           r == ScanEntryOf[[path |-> rel, content |-> content]]
       IN  CASE r.tag = "raise" ->
                  /\ heap' = IF ReachesCount(rel, content, f.arg.path_glob)
                             THEN [heap EXCEPT !.stats[f.refs.stats] =
                                      CountKind(@, Get(content, "kind"))]
                             ELSE heap
                  /\ frames' = [frames EXCEPT ![c].pc = "done", ![c].result = r,
                                              ![c].idx = 0, ![c].root = <<>>,
                                              ![c].listing = <<>>]
             [] r.tag = "skip" ->
                  /\ frames' = [frames EXCEPT ![c].pc = "scanning", ![c].idx = @ + 1]
                  /\ UNCHANGED heap
             [] r.tag = "row" ->
                  /\ heap' = [heap EXCEPT !.stats[f.refs.stats] = Count(@, r),
                                          !.details[f.refs.details] =
                                              Append(@, Detail(rel, r))]
                  /\ frames' = [frames EXCEPT ![c].pc = "scanning", ![c].idx = @ + 1]
    /\ UNCHANGED <<disk, DEFAULT_DATA_DIR, environ, seqVars>>

\* validate_cilium_policy is entered (line 180): fp is built from
\* DEFAULT_DATA_DIR and the path, the name of a file of the archive.
ValidateBegin(c) ==
    /\ frames[c].pc = "idle"
    /\ \E path \in { e.path : e \in DiskEntries } :
          frames' = [frames EXCEPT ![c] =
                        [IdleFrame EXCEPT !.pc = "resolved",
                                          !.op = "validate_cilium_policy",
                                          !.arg = [path |-> path],
                                          !.root = DEFAULT_DATA_DIR]]
    /\ UNCHANGED <<disk, heap, DEFAULT_DATA_DIR, environ, seqVars>>

\* Line 181: fp is checked against DEFAULT_DATA_DIR as it is now, a
\* PermissionError when the module was reloaded on another directory since
\* line 180.
ValidateEnforce(c) ==
    /\ frames[c].pc = "resolved"
    /\ frames' = [frames EXCEPT ![c] =
                     IF @.root # DEFAULT_DATA_DIR
                     THEN [@ EXCEPT !.pc = "done", !.result = Raise("PermissionError"),
                                    !.root = <<>>]
                     ELSE [@ EXCEPT !.pc = "checked"]]
    /\ UNCHANGED <<disk, heap, DEFAULT_DATA_DIR, environ, seqVars>>

\* Lines 182-233: the file is read as it is now and parsed, the result dict
\* is created and the checks fill it in, up to the line that raises or to
\* the return of the dict.
ValidateRun(c) ==
    /\ frames[c].pc = "checked"
    /\ LET f == frames[c]
           loaded == DiskLoad(disk[f.root], f.arg.path)
           a == NewObject(heap.report, c)
           r == ValidateData(f.arg.path, loaded.v)
           partial == IF r.tag = "raise" THEN ResultAtRaise(f.arg.path, loaded.v) ELSE r
       IN  IF loaded.tag = "raise"
           THEN /\ frames' = [frames EXCEPT ![c].pc = "done", ![c].result = loaded,
                                            ![c].root = <<>>]
                /\ UNCHANGED heap
           ELSE /\ heap' = [heap EXCEPT !.report =
                               Put(@, a, ApplyChecks(FreshReport(f.arg.path), partial))]
                /\ frames' = [frames EXCEPT
                                 ![c].pc = "done",
                                 ![c].root = <<>>,
                                 ![c].refs = [NoRefs EXCEPT !.report = a],
                                 ![c].result = IF r.tag = "raise" THEN r
                                               ELSE heap'.report[a]]
    /\ UNCHANGED <<disk, DEFAULT_DATA_DIR, environ, seqVars>>

\* The transport hands the outcome to the client; the frame is gone and
\* with it the references it held.
Respond(c) ==
    /\ frames[c].pc = "done"
    /\ frames' = [frames EXCEPT ![c] = IdleFrame]
    /\ heap' = Collect(heap, frames')
    /\ UNCHANGED <<disk, DEFAULT_DATA_DIR, environ, seqVars>>

NextReenter ==
    \/ \E c \in CallIds :
          \/ ScanBegin(c)
          \/ ScanIterFiles(c)
          \/ ScanNext(c)
          \/ ScanRelativeTo(c)
          \/ ScanBody(c)
          \/ ValidateBegin(c)
          \/ ValidateEnforce(c)
          \/ ValidateRun(c)
          \/ Respond(c)
    \/ UnzipCreate
    \/ UnzipWrite
    \/ \E d \in DataRoots : SetEnviron(d)
    \/ ReloadModule

SpecReenter == InitReenter /\ [][NextReenter]_vars

(***************************************************************************)
(* Properties of the path sandbox (SpecSandbox).                           *)
(***************************************************************************)
Range(seq) == { seq[i] : i \in 1..Len(seq) }

\* Equal to the root or nested under it.
UnderRoot(fp) ==
    \/ fp = Root
    \/ (Len(fp) > Len(Root) /\ \A i \in 1..Len(Root) : fp[i] = Root[i])

Denied(r) == r.tag = "raise" /\ r.err = "PermissionError"

\* C1: read_text(p) fails with PermissionError exactly when the resolved
\* absolute path of root/p is neither the root nor nested under it;
\* otherwise it goes on to read that resolved path, which for a relative
\* path without "..", "." or link segments is the root joined with p.
C1_ResolveContainment ==
    (pc = "done" /\ op = "read_text") =>
        LET fp == Resolve(JoinPath(Root, ParsePath(arg.abs, arg.segs)))
            plain == ~arg.abs /\ Range(arg.segs) \cap {"..", ".", "link"} = {}
        IN  /\ Denied(result) <=> ~UnderRoot(fp)
            /\ ~Denied(result) => trace = <<CheckEvent(fp, TRUE), ReadEvent(fp)>>
            /\ plain => (~Denied(result) /\ fp = Root \o arg.segs)

\* A "../etc/passwd" request was denied.
C1_Witness ==
    /\ pc = "done"
    /\ op = "read_text"
    /\ arg = [abs |-> FALSE, segs |-> <<"..", "etc", "passwd">>]
    /\ Denied(result)

\* C2: in read_text, validate_cilium_policy and read_resource every file
\* read comes after a passed containment check of the same path, and no
\* text from outside the root is returned.
C2_CheckBeforeRead ==
    (pc = "done" /\ op \in {"read_text", "validate_cilium_policy", "read_resource"}) =>
        /\ \A i \in 1..Len(trace) :
              trace[i].ev = "read" =>
                  \E j \in 1..(i - 1) :
                      /\ trace[j].ev = "check"
                      /\ trace[j].ok
                      /\ trace[j].path = trace[i].path
        /\ result.tag = "text" => UnderRoot(result.from)

(***************************************************************************)
(* Properties of the glob matcher (SpecGlob).                              *)
(***************************************************************************)
\* x matches the single pattern q, its "**/"-stripped copy included.
MatchesOne(x, q) ==
    \/ PurePathMatch(x, q) = "True"
    \/ (StartsWith(q, RecursivePrefix) /\ PurePathMatch(x, DropFirst(q, 3)) = "True")

\* C3: with a brace group (the first "{" and the first "}" after it),
\* _matches is true exactly when the candidate matches the pattern with the
\* group replaced by one of its alternatives; without a balanced pair the
\* pattern is matched unchanged.
C3_BraceExpansion ==
    (pc = "done" /\ op = "matches") =>
        LET p == arg.pattern
            open == IndexOf(p, "{")
            close == IF open = 0 THEN 0 ELSE IndexFrom(p, "}", open + 1)
            alts == Split(SubSeq(p, open + 1, close - 1), ",")
            Replaced(i) == SubSeq(p, 1, open - 1) \o alts[i] \o SubSeq(p, close + 1, Len(p))
        IN  (result.val = "True") <=>
                IF open # 0 /\ close # 0
                THEN \E i \in 1..Len(alts) : MatchesOne(arg.path, Replaced(i))
                ELSE MatchesOne(arg.path, p)

\* C4: for a pattern that starts with "**/", a top-level file that matches
\* an expanded alternative with the "**/" prefix stripped matches the
\* pattern, and list_files lists it.
C4_RecursivePrefixTopLevel ==
    (pc = "done" /\ op \in {"matches", "list_files"}
        /\ StartsWith(arg.pattern, RecursivePrefix)) =>
        LET alts == ExpandBracePatterns(arg.pattern)
            Hit(x) == /\ ~HasChar(x, "/")
                      /\ \E i \in 1..Len(alts) :
                            PurePathMatch(x, DropFirst(alts[i], 3)) = "True"
        IN  IF op = "matches"
            THEN Hit(arg.path) => result.val = "True"
            ELSE /\ result.tag = "files"
                 /\ \A f \in Range(trace) : Hit(f) => f \in Range(result.files)

\* list_files("**/a*") lists the top-level file "a", which "**/a*" itself
\* (two components) does not match.
C4_Witness ==
    /\ pc = "done"
    /\ op = "list_files"
    /\ arg.pattern = <<"*", "*", "/", "a", "*">>
    /\ result.tag = "files"
    /\ <<"a">> \in Range(result.files)
    /\ PurePathMatch(<<"a">>, arg.pattern) = "False"

\* Shell-style matching of a whole path: "*" is a run without "/", "**/" is
\* any number of directories, "**" a run across "/".
RECURSIVE ShellGlob(_, _)
ShellGlob(x, q) ==
    IF q = <<>> THEN x = <<>>
    ELSE IF StartsWith(q, RecursivePrefix)
         THEN \/ ShellGlob(x, DropFirst(q, 3))
              \/ \E i \in 1..Len(x) : x[i] = "/" /\ ShellGlob(DropFirst(x, i), q)
    ELSE IF StartsWith(q, <<"*", "*">>)
         THEN \/ ShellGlob(x, DropFirst(q, 2))
              \/ (x # <<>> /\ ShellGlob(Tail(x), q))
    ELSE IF Head(q) = "*"
         THEN \/ ShellGlob(x, Tail(q))
              \/ (x # <<>> /\ Head(x) # "/" /\ ShellGlob(Tail(x), q))
    ELSE x # <<>> /\ Head(x) = Head(q) /\ ShellGlob(Tail(x), Tail(q))

\* C5: _matches follows shell-style glob semantics on the whole relative
\* path; in particular a pattern without "/" and without "**" matches no
\* candidate inside a subdirectory.
C5_ShellGlobSemantics ==
    (pc = "done" /\ op = "matches") =>
        LET p == arg.pattern
            x == arg.path
            alts == ExpandBracePatterns(p)
        IN  /\ (~HasChar(p, "/") /\ ~Contains(p, <<"*", "*">>) /\ HasChar(x, "/"))
                   => result.val # "True"
            /\ (result.val = "True") <=> \E i \in 1..Len(alts) : ShellGlob(x, alts[i])

(***************************************************************************)
(* Properties of the validator (SpecValidate).                             *)
(***************************************************************************)
Validated == pc = "done" /\ op = "validate"

\* One of the two recognized kinds.
Recognized(kind) == kind.t = "str" /\ kind.v \in {CNPText, CCNPText}

\* The value under key k, Absent when the mapping has no such key.
Field(m, k) == GetOr(m, k, Absent)

\* C6: a structural error (root, kind, spec) is the last error, with no
\* warnings and an empty summary; and every mapping whose kind is absent or
\* not recognized yields exactly the kind error, no warnings, and the raw
\* kind in the report.
C6_StructuralShortCircuit ==
    Validated =>
        /\ result.tag = "report" =>
              \A e \in {ErrRoot, ErrKind, ErrSpec} :
                  e \in Range(result.errors) =>
                      /\ Last(result.errors) = e
                      /\ result.warnings = <<>>
                      /\ result.summary = {}
        /\ (IsMap(arg.data) /\ ~Recognized(Get(arg.data, "kind"))) =>
              /\ result.tag = "report"
              /\ result.errors = <<ErrKind>>
              /\ result.warnings = <<>>
              /\ result.kind = Get(arg.data, "kind")

\* The metadata is absent, null, or a mapping without a name key.
LacksName(data) ==
    LET m == Field(data, "metadata")
    IN  m.t \in {"absent", "null"} \/ (m.t = "map" /\ "name" \notin Keys(m))

\* A direction is absent or empty, or a list of mapping rules whose toPorts,
\* where present, is a list of mappings.
WellShapedDirection(d) ==
    \/ d.t \in {"absent", "null"}
    \/ /\ d.t = "list"
       /\ \A i \in 1..Len(d.v) :
             /\ d.v[i].t = "map"
             /\ LET tps == Field(d.v[i], "toPorts")
                IN  \/ tps.t = "absent"
                    \/ (tps.t = "list" /\ \A j \in 1..Len(tps.v) : tps.v[j].t = "map")

WellShapedSpec(sp) ==
    /\ sp.t = "map"
    /\ WellShapedDirection(Field(sp, "ingress"))
    /\ WellShapedDirection(Field(sp, "egress"))

\* C7: with a recognized kind and no metadata.name, an absent or empty spec
\* gives exactly the errors name, spec in that order; a non-empty spec gives
\* the name error alone and the checks of steps 5-7 still run: the summary
\* is filled in and the warnings are produced.
C7_NameDoesNotShortCircuit ==
    (Validated /\ IsMap(arg.data) /\ Recognized(Get(arg.data, "kind"))
        /\ LacksName(arg.data)) =>
        LET sp == Get(arg.data, "spec")
        IN  IF ~Truthy(sp)
            THEN /\ result.tag = "report"
                 /\ result.errors = <<ErrName, ErrSpec>>
            ELSE /\ WellShapedSpec(sp) => result.tag = "report"
                 /\ result.tag = "report" =>
                       /\ result.errors = <<ErrName>>
                       /\ result.summary =
                              { <<"has_ingress", Truthy(Get(sp, "ingress"))>>,
                                <<"has_egress", Truthy(Get(sp, "egress"))>> }
                       /\ (~Truthy(Get(sp, "ingress")) /\ ~Truthy(Get(sp, "egress")))
                              => result.warnings = <<WarnNoRules>>

\* {kind: CNP, metadata: {}, spec: {}} was validated.
C7_Witness ==
    /\ Validated
    /\ arg.data = MapVal([kind |-> StrVal(CNPText), metadata |-> EmptyMap,
                          spec |-> EmptyMap])
    /\ result.tag = "report"
    /\ result.errors = <<ErrName, ErrSpec>>

\* The document of the example: kind CNP, a name, ingress [{}], egress [{}].
CoarsePolicy ==
    MapVal([kind |-> StrVal(CNPText), metadata |-> MapVal([name |-> StrVal(XText)]),
            spec |-> MapVal([ingress |-> ListVal(<< EmptyMap >>),
                             egress |-> ListVal(<< EmptyMap >>)])])

\* Some rule of the direction has a toPorts entry with ports or rules
\* populated; a direction of any other shape has no such rule.
HasPopulatedPorts(d) ==
    /\ d.t = "list"
    /\ \E i \in 1..Len(d.v) :
          /\ IsMap(d.v[i])
          /\ LET tps == Field(d.v[i], "toPorts")
             IN  /\ tps.t = "list"
                 /\ \E j \in 1..Len(tps.v) :
                       /\ IsMap(tps.v[j])
                       /\ \/ Truthy(Get(tps.v[j], "ports"))
                          \/ Truthy(Get(tps.v[j], "rules"))

\* The direction is present in the spec: the key is there with a truthy
\* value.
Present(sp, direction) == IsMap(sp) /\ Truthy(Get(sp, direction))

\* The directional and DNS warnings due for a spec, in the order ingress,
\* egress, DNS.
DueWarnings(sp) ==
    (IF Present(sp, "ingress") /\ ~HasPopulatedPorts(Get(sp, "ingress"))
     THEN <<WarnIngress>> ELSE <<>>)
    \o (IF Present(sp, "egress") /\ ~HasPopulatedPorts(Get(sp, "egress"))
        THEN <<WarnEgress>> ELSE <<>>)
    \o (IF /\ Present(sp, "egress")
           /\ ~Contains(SafeDump(Get(sp, "egress")), Text53)
           /\ ~Contains(SafeDump(Get(sp, "egress")), KeyText("toFQDNs"))
        THEN <<WarnDns>> ELSE <<>>)

\* The general rule of C8: when a document of a recognized kind has a
\* warning due, a report is returned and carries the due warnings, in the
\* order ingress, egress, DNS.
WarningsAsDue ==
    (Validated /\ IsMap(arg.data) /\ Recognized(Get(arg.data, "kind"))) =>
        LET due == DueWarnings(Get(arg.data, "spec"))
        IN  due # <<>> =>
               /\ result.tag = "report"
               /\ SelectSeq(result.warnings, LAMBDA w : w \in Range(due)) = due

\* C8: the example yields zero errors and the warnings the claim gives it
\* (it counts two and names three, ingress, egress and DNS: either is
\* taken), and for each present direction none of whose rules has a toPorts
\* entry with populated ports or rules the directional warning is emitted,
\* and for a present egress whose rendered text has neither "53" nor
\* "toFQDNs" the DNS warning is emitted, in the order ingress, egress, DNS.
C8_WarningsEmitted ==
    /\ (Validated /\ arg.data = CoarsePolicy) =>
          /\ result.tag = "report"
          /\ result.errors = <<>>
          /\ \/ Len(result.warnings) = 2
             \/ result.warnings = <<WarnIngress, WarnEgress, WarnDns>>
    /\ WarningsAsDue

\* C9: for a parsed document of any shape the validation returns a complete
\* report and raises nothing.
C9_NeverThrows ==
    Validated =>
        /\ result.tag = "report"
        /\ DOMAIN result = {"tag", "path", "errors", "warnings", "kind",
                            "metadata", "summary"}

(***************************************************************************)
(* Properties of the posture scan (SpecScan).                              *)
(***************************************************************************)
\* The entry is one the scan counts: it matches the glob, has a YAML
\* extension, loads as a mapping and has a recognized kind.
Countable(e, glob) ==
    /\ glob = <<>> \/ Matches(e.path, glob) = "True"
    /\ LowerSuffix(e.path) \in YamlSuffixes
    /\ e.content.t = "map"
    /\ Recognized(Get(e.content, "kind"))

\* C10: the entries the scan does not count leave the counters and the
\* detail list as they were, and no file makes the scan fail: it ends with
\* a complete {stats, details} result over the whole corpus.
C10_ScanBestEffort ==
    (op = "zero_trust_checklist" /\ scan.active) =>
        LET counted == { i \in 1..(scan.idx - 1) :
                            Countable(scan.corpus[i], arg.path_glob) }
        IN  /\ scan.stats.total = Cardinality(counted)
            /\ Len(scan.details) = Cardinality(counted)
            /\ pc = "done" =>
                  /\ result.tag = "scan"
                  /\ scan.idx = Len(scan.corpus) + 1
                  /\ result.stats = scan.stats
                  /\ result.details = scan.details

\* The number of detail rows satisfying P.
RowCount(details, P(_)) == Cardinality({ i \in 1..Len(details) : P(details[i]) })

\* The position of the file rel in the corpus (paths are distinct).
PositionOf(corpus, rel) == CHOOSE i \in 1..Len(corpus) : corpus[i].path = rel

\* Some rule of ingress or of egress has a toPorts entry with populated
\* ports or rules.
AnyDirectionHasPorts(content) ==
    LET sp == Get(content, "spec")
    IN  /\ IsMap(sp)
        /\ \E d \in {Get(sp, "ingress"), Get(sp, "egress")} :
              d.t = "list" /\ HasPopulatedPorts(d)

\* The counters agree with the detail rows, and the rows are those of
\* processed corpus entries in corpus order, with the l7 flag as defined.
StatsAgree(st) ==
    /\ st.stats.total = st.stats.cnp + st.stats.ccnp
    /\ st.stats.total = Len(st.details)
    /\ st.stats.cnp = RowCount(st.details, LAMBDA r : r.kind = StrVal(CNPText))
    /\ st.stats.ccnp = RowCount(st.details, LAMBDA r : r.kind = StrVal(CCNPText))
    /\ st.stats.with_l7 = RowCount(st.details, LAMBDA r : r.l7)
    /\ st.stats.dns_ok = RowCount(st.details, LAMBDA r : r.dns_handled)
    /\ \A i \in 1..Len(st.details) :
          /\ \E j \in 1..(st.idx - 1) : st.corpus[j].path = st.details[i].path
          /\ st.details[i].l7 =
                AnyDirectionHasPorts(st.corpus[PositionOf(st.corpus, st.details[i].path)].content)
    /\ \A i, j \in 1..Len(st.details) :
          i < j => PositionOf(st.corpus, st.details[i].path)
                      < PositionOf(st.corpus, st.details[j].path)

\* The corpus of the example: three CNP files, a.yaml with toPorts.ports in
\* ingress, p.yaml and q.yaml with toFQDNs in egress.
ExampleCorpus(corpus) ==
    /\ Len(corpus) = 3
    /\ { corpus[i].path : i \in 1..3 } =
          { <<"a", ".", "y", "a", "m", "l">>, <<"p", ".", "y", "a", "m", "l">>,
            <<"q", ".", "y", "a", "m", "l">> }

ExampleStats == [total |-> 3, cnp |-> 3, ccnp |-> 0, with_l7 |-> 1, dns_ok |-> 2]

\* C11: during a scan no counter ever decreases and no detail row is ever
\* removed; after each processed entry and in the returned result
\* total = cnp + ccnp = number of rows, with_l7 and dns_ok count the rows
\* with the l7 and dns_handled flag, the l7 flag says that a rule of ingress
\* or egress has a populated toPorts entry, and the rows are in corpus
\* order; the scan of the three-file example returns
\* {total 3, cnp 3, ccnp 0, with_l7 1, dns_ok 2}.
C11_StatsAccumulateAndAgree ==
    /\ [](scan.active =>
            /\ (pc = "scanning" \/ result.tag = "scan") => StatsAgree(scan)
            /\ result.tag = "scan" =>
                  /\ result.stats = scan.stats
                  /\ result.details = scan.details
                  /\ ExampleCorpus(scan.corpus) => result.stats = ExampleStats)
    /\ [][(scan.active /\ scan'.active) =>
            /\ \A k \in DOMAIN ZeroStats : scan'.stats[k] >= scan.stats[k]
            /\ IsPrefix(scan.details, scan'.details)]_vars

\* The scan of the example corpus returned the example's counters.
C11_Witness ==
    /\ pc = "done"
    /\ op = "zero_trust_checklist"
    /\ ExampleCorpus(scan.corpus)
    /\ result.tag = "scan"
    /\ result.stats = ExampleStats
    /\ Len(result.details) = 3

(***************************************************************************)
(* Properties of concurrent serving (SpecReenter).                         *)
(***************************************************************************)
\* zero_trust_checklist run alone over the entries left, from the counters
\* and rows so far.
RECURSIVE ScanAlone(_, _, _, _)
ScanAlone(entries, glob, stats, details) ==
    IF entries = <<>> THEN [tag |-> "scan", stats |-> stats, details |-> details]
    ELSE LET e == Head(entries)
             r == ScanEntry(e.path, e.content, glob)
         IN  CASE r.tag = "raise" -> r
               [] r.tag = "skip" -> ScanAlone(Tail(entries), glob, stats, details)
               [] r.tag = "row" -> ScanAlone(Tail(entries), glob, Count(stats, r),
                                             Append(details, Detail(e.path, r)))

\* validate_cilium_policy run alone on the file named path.
ValidateAlone(d, path) ==
    LET loaded == DiskLoad(d, path)
    IN  IF loaded.tag = "raise" THEN loaded ELSE ValidateData(path, loaded.v)

\* What the call of frame f returns when it is the only call, over the data
\* dirs and DEFAULT_DATA_DIR as they are.
Alone(f) ==
    IF f.op = "zero_trust_checklist"
    THEN ScanAlone(disk[DEFAULT_DATA_DIR], f.arg.path_glob, ZeroStats, <<>>)
    ELSE ValidateAlone(disk[DEFAULT_DATA_DIR], f.arg.path)

\* C12: however the steps of the calls interleave, every finished call
\* during which no data dir and no DEFAULT_DATA_DIR changed has the outcome
\* it has when run alone on the same data dir, and no two calls in progress
\* hold the same stats, details or result object.
C12_Reenterable ==
    /\ \A c \in CallIds :
          (frames[c].pc = "done" /\ ~frames[c].moved)
              => frames[c].result = Alone(frames[c])
    /\ \A c, d \in CallIds : \A r \in Roles :
          (c # d /\ frames[c].refs[r] # 0) => frames[c].refs[r] # frames[d].refs[r]

\* Over an unchanged data dir of two files, a scan that counted both has
\* returned while another scan, entered before the first one's outcome was
\* handed over, is in the middle of its loop with one file counted.
C12_Witness ==
    /\ frames[1].pc = "done"
    /\ frames[1].op = "zero_trust_checklist"
    /\ ~frames[1].moved
    /\ frames[1].result.tag = "scan"
    /\ frames[1].result.stats.total = 2
    /\ frames[2].pc = "body"
    /\ ~frames[2].moved
    /\ frames[2].idx = 2
    /\ heap.stats[frames[2].refs.stats].total = 1
    /\ Len(disk[DEFAULT_DATA_DIR]) >= 2

(***************************************************************************)
(* Properties of the template generator (SpecTemplate).                    *)
(***************************************************************************)
\* The number of places where sub occurs in s.
Occurrences(s, sub) ==
    Cardinality({ i \in 1..(Len(s) - Len(sub) + 1) : SubSeq(s, i, i + Len(sub) - 1) = sub })

EndsWith(s, suffix) ==
    Len(suffix) <= Len(s) /\ SubSeq(s, Len(s) - Len(suffix) + 1, Len(s)) = suffix

\* Every port string is "port" or "port/protocol": it has at most one "/".
PortStringsWellFormed(ports) ==
    ports.t = "list" => \A i \in 1..Len(ports.v) : Occurrences(ports.v[i].v, <<"/">>) <= 1

\* The text of the fixed kube-system/kube-dns UDP/53 egress rule.
KubeDnsRuleText ==
    <<" ", " ", "-", " ", "t", "o", "E", "n", "d", "p", "o", "i", "n", "t", "s", ":", "\n">>
    \o <<" ", " ", " ", " ", "-", " ", "m", "a", "t", "c", "h", "L", "a", "b", "e", "l", "s", ":", "\n">>
    \o <<" ", " ", " ", " ", " ", " ", " ", " ", "k", "8", "s", ":", "i", "o", ".", "k", "u", "b", "e", "r", "n", "e", "t", "e", "s", ".", "p", "o", "d", ".", "n", "a", "m", "e", "s", "p", "a", "c", "e", ":", " ", "k", "u", "b", "e", "-", "s", "y", "s", "t", "e", "m", "\n">>
    \o <<" ", " ", " ", " ", " ", " ", " ", " ", "k", "8", "s", "-", "a", "p", "p", ":", " ", "k", "u", "b", "e", "-", "d", "n", "s", "\n">>
    \o <<" ", " ", " ", " ", "t", "o", "P", "o", "r", "t", "s", ":", "\n">>
    \o <<" ", " ", " ", " ", "-", " ", "p", "o", "r", "t", "s", ":", "\n">>
    \o <<" ", " ", " ", " ", " ", " ", "-", " ", "p", "o", "r", "t", ":", " ", "'", "5", "3", "'", "\n">>
    \o <<" ", " ", " ", " ", " ", " ", " ", " ", "p", "r", "o", "t", "o", "c", "o", "l", ":", " ", "U", "D", "P", "\n">>

\* The text of the toPorts of the default ingress rule, 80/TCP and 443/TCP,
\* up to the start of egress.
DefaultPortsText ==
    <<" ", " ", " ", " ", "t", "o", "P", "o", "r", "t", "s", ":", "\n">>
    \o <<" ", " ", " ", " ", "-", " ", "p", "o", "r", "t", "s", ":", "\n">>
    \o <<" ", " ", " ", " ", " ", " ", "-", " ", "p", "o", "r", "t", ":", " ", "'", "8", "0", "'", "\n">>
    \o <<" ", " ", " ", " ", " ", " ", " ", " ", "p", "r", "o", "t", "o", "c", "o", "l", ":", " ", "T", "C", "P", "\n">>
    \o <<" ", " ", " ", " ", "-", " ", "p", "o", "r", "t", "s", ":", "\n">>
    \o <<" ", " ", " ", " ", " ", " ", "-", " ", "p", "o", "r", "t", ":", " ", "'", "4", "4", "3", "'", "\n">>
    \o <<" ", " ", " ", " ", " ", " ", " ", " ", "p", "r", "o", "t", "o", "c", "o", "l", ":", " ", "T", "C", "P", "\n">>
    \o <<" ", " ", "e", "g", "r", "e", "s", "s", ":", "\n">>

\* The text of the default FQDN rule, from the start of egress up to the
\* next rule.
DefaultFqdnText ==
    <<" ", " ", "e", "g", "r", "e", "s", "s", ":", "\n">>
    \o <<" ", " ", "-", " ", "t", "o", "F", "Q", "D", "N", "s", ":", "\n">>
    \o <<" ", " ", " ", " ", "-", " ", "m", "a", "t", "c", "h", "N", "a", "m", "e", ":", " ", "'", "*", ".", "a", "m", "a", "z", "o", "n", "a", "w", "s", ".", "c", "o", "m", "'", "\n">>
    \o <<" ", " ", "-", " ", "t", "o", "E", "n", "d", "p", "o", "i", "n", "t", "s", ":", "\n">>

\* The returned text is a CiliumNetworkPolicy named <app>-ztp with one
\* ingress rule and exactly two egress rules, the FQDN rule and then the
\* fixed kube-dns UDP/53 rule; absent or empty ingress ports give 80/TCP and
\* 443/TCP, absent or empty FQDNs give *.amazonaws.com, and a port string
\* without "/" gets TCP.
TemplateAsDescribed ==
    /\ result.tag = "text"
    /\ StartsWith(result.text,
                  <<"a", "p", "i", "V", "e", "r", "s", "i", "o", "n", ":", " ", "c", "i", "l", "i", "u", "m", ".", "i", "o", "/", "v", "2", "\n">>
                  \o <<"k", "i", "n", "d", ":", " ", "C", "i", "l", "i", "u", "m", "N", "e", "t", "w", "o", "r", "k", "P", "o", "l", "i", "c", "y", "\n">>
                  \o <<"m", "e", "t", "a", "d", "a", "t", "a", ":", "\n">>
                  \o <<" ", " ", "n", "a", "m", "e", ":", " ">> \o arg.app \o <<"-", "z", "t", "p", "\n">>)
    /\ Contains(result.text, <<"\n", " ", " ", "i", "n", "g", "r", "e", "s", "s", ":", "\n", " ", " ", "-", " ", "f", "r", "o", "m", "E", "n", "d", "p", "o", "i", "n", "t", "s", ":", "\n">>)
    /\ Contains(result.text, <<"\n", " ", " ", "e", "g", "r", "e", "s", "s", ":", "\n", " ", " ", "-", " ", "t", "o", "F", "Q", "D", "N", "s", ":", "\n">>)
    /\ Occurrences(result.text, <<"\n", " ", " ", "-", " ">>) = 3
    /\ EndsWith(result.text, KubeDnsRuleText)
    /\ ~Truthy(arg.ingress_ports) => Contains(result.text, DefaultPortsText)
    /\ ~Truthy(arg.egress_fqdns) => Contains(result.text, DefaultFqdnText)
    /\ Truthy(arg.ingress_ports) =>
          \A i \in 1..Len(arg.ingress_ports.v) :
              LET p == arg.ingress_ports.v[i]
              IN  ~HasChar(p.v, "/") =>
                      Contains(result.text,
                               <<" ", " ", " ", " ", " ", " ", "-", " ", "p", "o", "r", "t", ":", " ">> \o ScalarText(p) \o <<"\n">>
                               \o <<" ", " ", " ", " ", " ", " ", " ", " ", "p", "r", "o", "t", "o", "c", "o", "l", ":", " ", "T", "C", "P", "\n">>)

\* C13 as stated: every call of generate_policy_template, whatever its
\* arguments, returns the document described.
C13_TemplateAlways ==
    (pc = "done" /\ op = "generate_policy_template") => TemplateAsDescribed

\* C13 amended: every call of generate_policy_template whose port strings
\* have at most one "/" returns the document described.
C13_TemplateShape ==
    (pc = "done" /\ op = "generate_policy_template"
        /\ PortStringsWellFormed(arg.ingress_ports)) => TemplateAsDescribed

\* generate_policy_template("web", "prod") was called with no ports and no
\* FQDNs and returned the default document.
C13_Witness ==
    /\ pc = "done"
    /\ op = "generate_policy_template"
    /\ arg.app = <<"w", "e", "b">>
    /\ arg.namespace = <<"p", "r", "o", "d">>
    /\ arg.ingress_ports = Null
    /\ arg.egress_fqdns = Null
    /\ result.tag = "text"
    /\ Contains(result.text, DefaultPortsText)
    /\ EndsWith(result.text, KubeDnsRuleText)

=============================================================================
